---- MODULE Spec2Model ----
(***************************************************************************)
(* The datastore entity codec of appengine-go: loadEntity (load.go, kept   *)
(* as src/unnamed/part_003 from line 124 on) and saveEntity (save.go),     *)
(* with the goroutine/channel bridge that connects the codec to a          *)
(* PropertyLoadSaver.                                                       *)
(*                                                                         *)
(* Go values are records [t |-> dynamic type, v |-> payload]; payloads are *)
(* small integers standing for the int64, string, float64 ... contents.    *)
(* For a *Key the payload 0 is the nil pointer.                            *)
(***************************************************************************)
EXTENDS Integers, Sequences, FiniteSets, TLC

VARIABLES
    \* ---- the channel shared by the two goroutines of one call
    c,          \* chan Property (buffered): the queued Properties
    cclosed,    \* close(c) has run
    \* ---- loadEntity(dst, src)
    src,        \* the *pb.EntityProto being decoded
    dstKind,    \* dynamic type of dst: "map", "pls" (PropertyLoadSaver), "struct"
    lpc,        \* position of loadEntity
    lerr,       \* loadEntity's named result err
    props,      \* protoToProperties: the remaining src.Property
    rawProps,   \* protoToProperties: the remaining src.RawProperty
    ppc,        \* position of the protoToProperties goroutine
    pend,       \* protoToProperties: the Property (or error) about to be sent
    errc,       \* chan os.Error (capacity 1)
    cpc,        \* position of the consumer dst.Load / LoadStruct
    cret,       \* the consumer's return value
    received,   \* the Properties the consumer has taken from c, in order
    quota,      \* a PropertyLoadSaver's Load: how many Properties it takes before it returns
    plsErr,     \* a PropertyLoadSaver's Load: the error it returns when it stops
    styp,       \* struct destination/source: its type (a sequence of field descriptors)
    sv,         \* struct destination/source: its value, one entry per field
    sv0,        \* the struct value at the start of the call
    fieldName,  \* structPLS.Load: local fieldName
    reason,     \* structPLS.Load: local reason
    m,          \* Map destination
    m0,         \* the Map at the start of the call
    \* ---- saveEntity(defaultAppID, key, src)
    srcKind,    \* dynamic type of src: "map", "pls", "struct"
    key,        \* the *Key: its path from the root element down
    ssv,        \* struct source: its value (of type styp)
    smap,       \* Map source
    mnv,        \* Map source: nv, its entries in the order range yields them
    stream,     \* a PropertyLoadSaver's Save: the Properties it sends, in order
    saveErr,    \* a PropertyLoadSaver's Save: the error it returns
    closes,     \* a PropertyLoadSaver's Save: whether it closes the channel
    wpc,        \* position of saveEntity
    sx,         \* saveEntity's named result x
    serr,       \* saveEntity's named result err
    err1,       \* saveEntity's local err1
    gpc,        \* position of e.Save / SaveStruct
    toSend,     \* Save: the Properties it has still to send
    gerr,       \* Save: the error it is going to return
    sent,       \* the Properties Save has sent, in order
    kpc,        \* position of the propertiesToProto goroutine
    ep,         \* propertiesToProto: the EntityProto e
    prevMultiple, \* propertiesToProto: the map prevMultiple
    kres,       \* propertiesToProto: its return values
    donec       \* close(donec) has run

chanVars == <<c, cclosed>>
\* the arguments of the call and the behaviour of the user's code: never assigned
loadIn == <<src, dstKind, quota, plsErr, styp, sv0, m0>>
callVars == <<lpc, lerr>>
prodVars == <<props, rawProps, ppc, pend, errc>>
consVars == <<cpc, cret, received, fieldName, reason>>
dstVars == <<sv, m>>
loadVars == <<loadIn, callVars, prodVars, consVars, dstVars>>
saveIn == <<srcKind, key, ssv, smap, mnv, stream, saveErr, closes>>
saveCall == <<wpc, sx, serr, err1>>
saveProd == <<gpc, toSend, gerr, sent>>
saveCons == <<kpc, ep, prevMultiple, kres, donec>>
saveVars == <<saveIn, saveCall, saveProd, saveCons>>
vars == <<chanVars, loadVars, saveVars>>

----------------------------------------------------------------------------
(* Bounds of the model *)

\* most properties (indexed and raw together) of an enumerated entity
MaxProps == 2
\* most properties of an entity decoded into a struct, into a Map
MaxStructProps == 3
MaxMapProps == 3
\* most Properties a PropertyLoadSaver's Save sends, longest slice of a
\* struct or Map source
MaxStream == 3
MaxSlice == 2
\* how many properties beyond the channel capacity a long entity or stream has
BigExtra == 2

\* (mutant) a channel with one more slot
ChanCapPlusOne == 32 + 1
\* make(chan Property, 32)
ChanCap == 32

----------------------------------------------------------------------------
(* Go values, errors *)

Val(t, v) == [t |-> t, v |-> v]

\* os.Error values; Nil is the nil error
Err(msg, name, rsn) == [msg |-> msg, name |-> name, reason |-> rsn]
Nil == Err("nil", "", <<>>)
ErrNoValue == Err("datastore: internal error: stored property has no value", "", <<>>)
ErrInvalidKey == Err("datastore: invalid key", "", <<>>)
ErrUser == Err("user error", "", <<>>)

\* &ErrFieldMismatch{StructType, FieldName, Reason}
ErrFieldMismatch(name, rsn) == Err("ErrFieldMismatch", name, rsn)

\* the empty reason string ""
NoReason == <<>>

SeqsUpTo(S, n) == UNION {[1..k -> S] : k \in 0..n}

RECURSIVE SeqSum(_)
SeqSum(s) == IF s = <<>> THEN 0 ELSE Head(s) + SeqSum(Tail(s))

\* key.go: a *Key k > 0 and its wire Reference; a Reference that does not
\* describe a valid key fails to resolve.
keyToReferenceValue(k) == 0 - k
referenceValueToKey(r) ==
    IF r < 0 THEN [key |-> 0 - r, err |-> Nil] ELSE [key |-> 0, err |-> ErrInvalidKey]

\* pb.Property: Variant names the populated field of Value ("None": none is)
PbProp(name, variant, val, meaning, multiple) ==
    [Name |-> name, Variant |-> variant, Val |-> val, Meaning |-> meaning,
     Multiple |-> multiple]

\* datastore.Property
Prop(name, value, noIndex, multiple) ==
    [Name |-> name, Value |-> value, NoIndex |-> noIndex, Multiple |-> multiple]

----------------------------------------------------------------------------
(* protoToProperties *)

\* (mutant) the switch without the refinement by x.Meaning
protoValuePlain(x) ==
    CASE x.Variant = "Int64" -> [value |-> Val("int64", x.Val), err |-> Nil]
      [] x.Variant = "Boolean" -> [value |-> Val("bool", x.Val), err |-> Nil]
      [] x.Variant = "String" -> [value |-> Val("string", x.Val), err |-> Nil]
      [] x.Variant = "Double" -> [value |-> Val("float64", x.Val), err |-> Nil]
      [] x.Variant = "Reference" ->
            LET r == referenceValueToKey(x.Val)
            IN  [value |-> Val("key", r.key), err |-> r.err]
      [] OTHER -> [value |-> Val("nil", 0), err |-> ErrNoValue]

\* the switch that converts x.Value
protoValue(x) ==
    CASE x.Variant = "Int64" ->
            [value |-> IF x.Meaning = "GD_WHEN" THEN Val("Time", x.Val)
                       ELSE Val("int64", x.Val), err |-> Nil]
      [] x.Variant = "Boolean" -> [value |-> Val("bool", x.Val), err |-> Nil]
      [] x.Variant = "String" ->
            [value |-> IF x.Meaning = "BLOB" THEN Val("bytes", x.Val)
                       ELSE IF x.Meaning = "BLOBKEY" THEN Val("BlobKey", x.Val)
                       ELSE Val("string", x.Val), err |-> Nil]
      [] x.Variant = "Double" -> [value |-> Val("float64", x.Val), err |-> Nil]
      [] x.Variant = "Reference" ->
            LET r == referenceValueToKey(x.Val)
            IN  [value |-> Val("key", r.key), err |-> r.err]
      [] OTHER -> [value |-> Val("nil", 0), err |-> ErrNoValue]

\* the Property sent for x
protoProperty(x, noIndex) ==
    Prop(x.Name, protoValue(x).value, noIndex, x.Multiple)

\* (mutant) the raw properties are taken before the indexed ones
takeRawFirst(ps, rs) == Len(rs) = 0

\* which list the loop takes the next property from
takeIndexedFirst(ps, rs) == Len(ps) > 0

\* One iteration of the for loop up to the send: pick x, convert its value.
\* (mutant) a property that cannot be converted is sent like the others
producerGoesOn(err) == FALSE
\* if err != nil { errc <- err; return } and the default case of the switch
producerStops(err) == err # Nil

protoToProperties_next ==
    /\ ppc = "loop"
    /\ IF Len(props) = 0 /\ Len(rawProps) = 0
       THEN /\ pend' = Nil               \* break; errc <- nil
            /\ ppc' = "errc"
            /\ UNCHANGED <<props, rawProps>>
       ELSE LET idx == takeIndexedFirst(props, rawProps)
                x == IF idx THEN Head(props) ELSE Head(rawProps)
                r == protoValue(x)
            IN  /\ props' = IF idx THEN Tail(props) ELSE props
                /\ rawProps' = IF idx THEN rawProps ELSE Tail(rawProps)
                /\ IF producerStops(r.err)
                   THEN pend' = r.err /\ ppc' = "errc"
                   ELSE pend' = protoProperty(x, ~idx) /\ ppc' = "send"
    /\ UNCHANGED <<saveVars, chanVars, loadIn, callVars, errc, consVars, dstVars>>

\* dst <- Property{...}: blocks while the buffer is full
protoToProperties_send ==
    /\ ppc = "send"
    /\ Len(c) < ChanCap
    /\ c' = Append(c, pend)
    /\ ppc' = "loop"
    /\ UNCHANGED <<saveVars, cclosed, loadIn, callVars, props, rawProps, pend, errc, consVars,
                   dstVars>>

\* errc <- err (capacity 1, the only send)
protoToProperties_errc ==
    /\ ppc = "errc"
    /\ Len(errc) < 1
    /\ errc' = Append(errc, pend)
    /\ ppc' = "close"
    /\ UNCHANGED <<saveVars, chanVars, loadIn, callVars, props, rawProps, pend, consVars, dstVars>>

\* defer close(dst)
protoToProperties_close ==
    /\ ppc = "close"
    /\ cclosed' = TRUE
    /\ ppc' = "done"
    /\ UNCHANGED <<saveVars, c, loadIn, callVars, props, rawProps, pend, errc, consVars, dstVars>>

----------------------------------------------------------------------------
(* A PropertyLoadSaver's Load(c): user code. It takes Properties from c     *)
(* until it has taken quota of them or c is closed, then returns plsErr    *)
(* (if it stopped early) or nil.                                           *)

pls_Load_recv ==
    /\ cpc = "recv" /\ dstKind = "pls"
    /\ Len(received) < quota
    /\ Len(c) > 0
    /\ received' = Append(received, Head(c))
    /\ c' = Tail(c)
    /\ UNCHANGED <<saveVars, cclosed, loadIn, callVars, prodVars, cpc, cret, fieldName, reason,
                   dstVars>>

pls_Load_return ==
    /\ cpc = "recv" /\ dstKind = "pls"
    /\ \/ Len(received) >= quota /\ cret' = plsErr
       \/ Len(received) < quota /\ Len(c) = 0 /\ cclosed /\ cret' = Nil
    /\ cpc' = "returned"
    /\ UNCHANGED <<saveVars, chanVars, loadIn, callVars, prodVars, received, fieldName, reason,
                   dstVars>>

----------------------------------------------------------------------------
(* Structs. A struct type is the sequence of its fields in declaration     *)
(* order; a field has its codec name ("-": ignored), its Go type (for a    *)
(* slice other than []byte: slice = TRUE and typ is the element type), the *)
(* noindex directive and whether reflection can set it. A struct value has *)
(* one entry per field: a Val, or a sequence of Vals for a slice.          *)

Fld(name, typ, slice, noIndex, canSet) ==
    [name |-> name, typ |-> typ, slice |-> slice, noIndex |-> noIndex,
     canSet |-> canSet]

\* prop.go: codec.byName, the index of the field with this codec name (0: none)
byName(codec, name) ==
    IF name # "-" /\ \E i \in 1..Len(codec) : codec[i].name = name
    THEN CHOOSE i \in 1..Len(codec) : codec[i].name = name
    ELSE 0

\* reflect: v.Kind() of a value of Go type typ
KindOf(typ) ==
    CASE typ \in {"int64", "Time"} -> "Int64"
      [] typ = "int8" -> "Int8"
      [] typ = "int16" -> "Int16"
      [] typ = "int32" -> "Int32"
      [] typ = "bool" -> "Bool"
      [] typ \in {"string", "BlobKey"} -> "String"
      [] typ = "float64" -> "Float64"
      [] typ \in {"*Key", "*Other"} -> "Ptr"
      [] typ = "[]byte" -> "Slice"
      [] OTHER -> "Uint"

\* (mutant) no integer field overflows
OverflowIntNever(typ, x) == FALSE

\* reflect: v.OverflowInt(x) (an int64 field cannot overflow)
OverflowInt(typ, x) ==
    CASE typ = "int8" -> x < 0 - 128 \/ x > 127
      [] typ = "int16" -> x < 0 - 32768 \/ x > 32767
      [] typ = "int32" -> x < 0 - 2147483647 - 1 \/ x > 2147483647
      [] OTHER -> FALSE

typeMismatchReason(p, typ) ==
    LET entityType ==
            CASE p.Value.t = "int64" -> "int"
              [] p.Value.t = "bool" -> "bool"
              [] p.Value.t = "string" -> "string"
              [] p.Value.t = "float64" -> "float"
              [] p.Value.t = "key" -> "*datastore.Key"
              [] p.Value.t = "Time" -> "datastore.Time"
              [] p.Value.t = "BlobKey" -> "appengine.BlobKey"
              [] p.Value.t = "bytes" -> "[]byte"
              [] OTHER -> "empty"
    IN  <<"type mismatch", entityType, typ>>

\* loadProperty's switch v.Kind(): the reason, and the value v is set to
setValue(typ, p) ==
    LET k == KindOf(typ)
        t == p.Value.t
        x == p.Value.v
        ok == [reason |-> NoReason, value |-> Val(typ, x)]
        bad == [reason |-> typeMismatchReason(p, typ), value |-> Val(typ, 0)]
    IN  CASE k = "Int64" /\ t = "Time" -> ok
          [] k \in {"Int64", "Int8", "Int16", "Int32"} /\ ~(k = "Int64" /\ t = "Time") ->
                IF t # "int64" THEN bad
                ELSE IF OverflowInt(typ, x)
                THEN [reason |-> <<"value overflows struct field", ToString(x), typ>>,
                      value |-> Val(typ, 0)]
                ELSE ok
          [] k = "Bool" -> IF t = "bool" THEN ok ELSE bad
          [] k = "String" -> IF t \in {"BlobKey", "string"} THEN ok ELSE bad
          [] k = "Float64" -> IF t = "float64" THEN ok ELSE bad
          [] k = "Ptr" -> IF t = "key" /\ typ = "*Key" THEN ok ELSE bad
          [] k = "Slice" -> IF t = "bytes" /\ typ = "[]byte" THEN ok ELSE bad
          [] OTHER -> bad

\* (mutant) a slice field refuses a property that is not multiple-valued
sliceRefusedUnlessMultiple(isSlice, requireSlice) == isSlice /\ ~requireSlice

\* the test on requireSlice: refused when the field is no slice (or is
\* []byte) and the property is multiple-valued
sliceRefused(isSlice, requireSlice) == ~isSlice /\ requireSlice

\* (mutant) a slice field is set to the one value just decoded
storeReplacing(cur, isSlice, value) == IF isSlice THEN <<value>> ELSE value
\* v.SetInt(x) ... on the field itself, or on a new element that
\* slice.Set(reflect.Append(slice, v)) adds at the end
storeInto(cur, isSlice, value) == IF isSlice THEN Append(cur, value) ELSE value

\* (mutant) a value of the wrong type or out of range zeroes the field
zeroedOnMismatch(structValue, index, isSlice) ==
    [structValue EXCEPT ![index] = IF isSlice THEN <<>> ELSE Val(@.t, 0)]
\* the switch returns the reason before any Set: the struct is as it was
keptOnMismatch(structValue, index, isSlice) == structValue

loadProperty(codec, structValue, p, requireSlice) ==
    LET index == byName(codec, p.Name)
        fail(rsn) == [reason |-> rsn, sv |-> structValue]
    IN  IF index = 0 THEN fail(<<"no such struct field">>)
        ELSE IF ~codec[index].canSet THEN fail(<<"cannot set struct field">>)
        ELSE IF sliceRefused(codec[index].slice, requireSlice)
        THEN fail(<<"multiple-valued property requires a slice field type">>)
        ELSE LET r == setValue(codec[index].typ, p)
             IN  IF r.reason # NoReason
                 THEN [reason |-> r.reason,
                       sv |-> keptOnMismatch(structValue, index, codec[index].slice)]
                 ELSE [reason |-> NoReason,
                       sv |-> [structValue EXCEPT ![index] =
                                 storeInto(@, codec[index].slice, r.value)]]

\* (mutant) the first mismatch is kept, later ones are dropped
noteFirstMismatch(fn, rs, p, errStr) ==
    IF errStr # NoReason /\ rs = NoReason THEN <<p.Name, errStr>> ELSE <<fn, rs>>

\* structPLS.Load: fieldName, reason after a property whose load gave errStr
noteMismatch(fn, rs, p, errStr) ==
    IF errStr # NoReason THEN <<p.Name, errStr>> ELSE <<fn, rs>>

\* for p := range c { ... loadProperty ... }
structPLS_Load_recv ==
    /\ cpc = "recv" /\ dstKind = "struct"
    /\ Len(c) > 0
    /\ LET p == Head(c)
           r == loadProperty(styp, sv, p, p.Multiple)
           n == noteMismatch(fieldName, reason, p, r.reason)
       IN  /\ sv' = r.sv
           /\ fieldName' = n[1]
           /\ reason' = n[2]
           /\ received' = Append(received, p)
    /\ c' = Tail(c)
    /\ UNCHANGED <<saveVars, cclosed, loadIn, callVars, prodVars, cpc, cret, m>>

\* the range loop ends when c is closed and empty
structPLS_Load_return ==
    /\ cpc = "recv" /\ dstKind = "struct"
    /\ Len(c) = 0 /\ cclosed
    /\ cret' = IF reason # NoReason THEN ErrFieldMismatch(fieldName, reason) ELSE Nil
    /\ cpc' = "returned"
    /\ UNCHANGED <<saveVars, chanVars, loadIn, callVars, prodVars, received, fieldName, reason,
                   dstVars>>

----------------------------------------------------------------------------
(* Map destination. A Map is a function from the property names to Go      *)
(* values [slice, t, v, s]: a scalar of type t with payload v, or a slice  *)
(* of element type t holding the payloads s. MNil is the nil interface, an *)
(* absent entry.                                                           *)

MVal(t, v) == [slice |-> FALSE, t |-> t, v |-> v, s |-> <<>>]
MSlice(t, s) == [slice |-> TRUE, t |-> t, v |-> 0, s |-> s]
MNil == MVal("nil", 0)

\* the outcome of loadMapEntry: the Map, the error returned, whether it panicked
MapResult(mm, err, panic) == [m |-> mm, err |-> err, panic |-> panic]

loadMapEntry(mm, p) ==
    LET result ==
            CASE p.Variant = "Int64" ->
                    IF p.Meaning = "GD_WHEN" THEN Val("Time", p.Val)
                    ELSE Val("int64", p.Val)
              [] p.Variant = "Boolean" -> Val("bool", p.Val)
              [] p.Variant = "String" ->
                    IF p.Meaning = "BLOB" THEN Val("bytes", p.Val)
                    ELSE IF p.Meaning = "BLOBKEY" THEN Val("BlobKey", p.Val)
                    ELSE Val("string", p.Val)
              [] p.Variant = "Double" -> Val("float64", p.Val)
              [] p.Variant = "Reference" -> Val("key", referenceValueToKey(p.Val).key)
              [] OTHER -> Val("nil", 0)
        x == mm[p.Name]
    IN  IF p.Variant = "Reference" /\ referenceValueToKey(p.Val).err # Nil
        THEN MapResult(mm, referenceValueToKey(p.Val).err, FALSE)
        ELSE IF p.Variant \notin {"Int64", "Boolean", "String", "Double", "Reference"}
        THEN MapResult(mm, Nil, FALSE)                  \* default: return nil
        ELSE IF p.Multiple
        THEN IF x # MNil
             THEN \* reflect.Append(reflect.ValueOf(x), reflect.ValueOf(result))
                  \* panics unless x is a slice whose elements have result's type
                  IF x.slice /\ x.t = result.t
                  THEN MapResult([mm EXCEPT ![p.Name] = MSlice(x.t, Append(x.s, result.v))],
                                 Nil, FALSE)
                  ELSE MapResult(mm, Nil, TRUE)
             ELSE MapResult([mm EXCEPT ![p.Name] = MSlice(result.t, <<result.v>>)],
                            Nil, FALSE)
        ELSE MapResult([mm EXCEPT ![p.Name] = MVal(result.t, result.v)], Nil, FALSE)

\* (mutant) the range loop ends at the first error
RECURSIVE loadMapRangeStops(_, _, _)
loadMapRangeStops(mm, err, ps) ==
    IF ps = <<>> \/ err # Nil THEN MapResult(mm, err, FALSE)
    ELSE LET r == loadMapEntry(mm, Head(ps))
         IN  IF r.panic THEN MapResult(r.m, err, TRUE)
             ELSE loadMapRangeStops(r.m, IF r.err # Nil THEN r.err ELSE err, Tail(ps))

\* one of loadMap's two range loops, from the Map mm and the err so far
RECURSIVE loadMapRange(_, _, _)
loadMapRange(mm, err, ps) ==
    IF ps = <<>> THEN MapResult(mm, err, FALSE)
    ELSE LET r == loadMapEntry(mm, Head(ps))
         IN  IF r.panic THEN MapResult(r.m, err, TRUE)
             ELSE loadMapRange(r.m, IF r.err # Nil THEN r.err ELSE err, Tail(ps))

loadMap(mm, e) ==
    LET r == loadMapRange(mm, Nil, e.Property)
    IN  IF r.panic THEN r ELSE loadMapRange(r.m, r.err, e.RawProperty)

\* if m, ok := dst.(Map); ok { return loadMap(m, src) }
loadEntity_map ==
    /\ lpc = "start" /\ dstKind = "map"
    /\ LET r == loadMap(m, src)
       IN  /\ m' = r.m
           /\ lerr' = r.err
           /\ lpc' = IF r.panic THEN "panic" ELSE "returned"
    /\ UNCHANGED <<saveVars, chanVars, loadIn, prodVars, consVars, sv>>

----------------------------------------------------------------------------
(* loadEntity *)

\* c := make(chan Property, 32); errc := make(chan os.Error, 1);
\* go protoToProperties(c, errc, src); e.Load(c) / LoadStruct(dst, c)
loadEntity_spawn ==
    /\ lpc = "start" /\ dstKind \in {"pls", "struct"}
    /\ c' = <<>> /\ cclosed' = FALSE /\ errc' = <<>>
    /\ props' = src.Property /\ rawProps' = src.RawProperty
    /\ ppc' = "loop" /\ cpc' = "recv"
    /\ lpc' = "load"
    /\ UNCHANGED <<saveVars, loadIn, lerr, pend, cret, received, fieldName, reason, dstVars>>

\* return e.Load(c): the result is assigned to err
loadEntity_return ==
    /\ lpc = "load" /\ cpc = "returned"
    /\ lerr' = cret
    /\ lpc' = "defer"
    /\ UNCHANGED <<saveVars, chanVars, loadIn, prodVars, consVars, dstVars>>

\* defer func() { if err == nil { err = <-errc } }()
loadEntity_defer ==
    /\ lpc = "defer"
    /\ IF lerr = Nil
       THEN /\ Len(errc) > 0
            /\ lerr' = Head(errc)
            /\ errc' = Tail(errc)
       ELSE UNCHANGED <<lerr, errc>>
    /\ lpc' = "returned"
    /\ UNCHANGED <<saveVars, chanVars, loadIn, props, rawProps, ppc, pend, consVars, dstVars>>

----------------------------------------------------------------------------
(* The encode direction: save.go *)

\* datastore.go: the most indexed properties an entity may have (5000 in
\* the SDK; scaled down so that the enumerated sources reach it)
maxIndexedProperties == 2

ErrTooManyIndexed == Err("datastore: too many indexed properties", "", <<>>)
ErrMultiple(name) ==
    Err("datastore: multiple Properties with Name, but Multiple is false", name, <<>>)
ErrIndexedBytes(name) ==
    Err("datastore: cannot index a []byte valued Property with Name", name, <<>>)
ErrInvalidValue(name) ==
    Err("datastore: invalid Value type for a Property with Name", name, <<>>)
ErrUnsupportedField(typ) == Err("datastore: unsupported struct field type", typ, <<>>)
ErrCannotStore(name, typ) ==
    Err("datastore: cannot store field: unsupported datastore value type", name, <<typ>>)

\* *pb.EntityProto; NilEntity is the nil pointer
Entity(k, g, ps, rs) ==
    [nil |-> FALSE, Key |-> k, EntityGroup |-> g, Property |-> ps, RawProperty |-> rs]
NilEntity == [nil |-> TRUE, Key |-> [App |-> "", Path |-> <<>>], EntityGroup |-> <<>>,
              Property |-> <<>>, RawProperty |-> <<>>]

\* key.go: a *Key is its path of elements from the root down; its parent is
\* the path without the last element, its root the first element alone
defaultAppID == "app"
parent(k) == SubSeq(k, 1, Len(k) - 1)
root(k) == SubSeq(k, 1, 1)
\* key.go: the pb.Reference of a key
keyToProto(appID, k) == [App |-> appID, Path |-> k]

\* (mutant) the EntityGroup is the Path of the key's parent
entityGroupOfParent(k) ==
    IF parent(k) = <<>> THEN <<>> ELSE keyToProto(defaultAppID, parent(k)).Path
\* if key.parent == nil { e.EntityGroup = &pb.Path{} }
\* else { e.EntityGroup = keyToProto(defaultAppID, key.root()).Path }
entityGroupOf(k) ==
    IF parent(k) = <<>> THEN <<>> ELSE keyToProto(defaultAppID, root(k)).Path

\* e := &pb.EntityProto{Key: keyToProto(defaultAppID, key)} and its EntityGroup
newEntity(k) == Entity(keyToProto(defaultAppID, k), entityGroupOf(k), <<>>, <<>>)

\* ---- struct source

\* what saveStructProperty does with the field or element v: the Property
\* it sends (send = FALSE: none), the error it returns
\* (mutant) a []byte field keeps the field's own noindex directive
bytesKeepIndex(noIndex) == noIndex
\* case []byte: p.NoIndex = true
bytesNoIndex(noIndex) == TRUE

saveStructProperty(name, noIndex, multiple, v) ==
    LET P(value, ni) == [send |-> TRUE, p |-> Prop(name, value, ni, multiple), err |-> Nil]
        k == KindOf(v.t)
    IN  CASE v.t = "*Key" ->
                IF v.v = 0
                THEN [send |-> FALSE, p |-> Prop(name, Val("nil", 0), noIndex, multiple),
                      err |-> Nil]
                ELSE P(Val("key", v.v), noIndex)
          [] v.t = "Time" -> P(Val("Time", v.v), noIndex)
          [] v.t = "BlobKey" -> P(Val("BlobKey", v.v), noIndex)
          [] v.t = "[]byte" -> P(Val("bytes", v.v), bytesNoIndex(noIndex))
          [] v.t \notin {"*Key", "Time", "BlobKey", "[]byte"}
                /\ k \in {"Int64", "Int8", "Int16", "Int32"} -> P(Val("int64", v.v), noIndex)
          [] v.t \notin {"*Key", "Time", "BlobKey", "[]byte"} /\ k = "Bool" ->
                P(Val("bool", v.v), noIndex)
          [] v.t \notin {"*Key", "Time", "BlobKey", "[]byte"} /\ k = "String" ->
                P(Val("string", v.v), noIndex)
          [] v.t \notin {"*Key", "Time", "BlobKey", "[]byte"} /\ k = "Float64" ->
                P(Val("float64", v.v), noIndex)
          [] OTHER -> [send |-> FALSE, p |-> Prop(name, Val("nil", 0), noIndex, multiple),
                       err |-> ErrUnsupportedField(v.t)]

\* (mutant) the elements of a slice field are sent as single values
sliceElemSingle == FALSE
\* the Multiple flag structPLS.Save gives the elements of a slice field
sliceElemMultiple == TRUE

\* if err := saveStructProperty(...); err != nil { return err }
saveStops(err) == err # Nil

\* the values saveStructProperty is called with for field i: the field
\* itself, or each element of a slice that is not []byte
RECURSIVE saveValues(_, _, _, _)
saveValues(t, multiple, vs, acc) ==
    IF vs = <<>> THEN acc
    ELSE LET r == saveStructProperty(t.name, t.noIndex, multiple, Head(vs))
         IN  IF saveStops(r.err) THEN [props |-> acc.props, err |-> r.err]
             ELSE saveValues(t, multiple, Tail(vs),
                             [props |-> IF r.send THEN Append(acc.props, r.p) ELSE acc.props,
                              err |-> Nil])

\* (mutant) only the fields tagged "-" are skipped
skipsIgnoredOnly(t) == t.name = "-"
\* if t.name == "-" { continue }; if !v.IsValid() || !v.CanSet() { continue }
skipsField(t) == t.name = "-" \/ ~t.canSet

\* structPLS.Save from field i on: the Properties sent before it returns,
\* and the error it returns
RECURSIVE structPLS_Save(_, _, _, _)
structPLS_Save(codec, v, i, acc) ==
    IF i > Len(codec) THEN acc
    ELSE IF skipsField(codec[i])
    THEN structPLS_Save(codec, v, i + 1, acc)
    ELSE LET r == IF codec[i].slice
                  THEN saveValues(codec[i], sliceElemMultiple, v[i], acc)
                  ELSE saveValues(codec[i], FALSE, <<v[i]>>, acc)
         IN  IF saveStops(r.err) THEN r ELSE structPLS_Save(codec, v, i + 1, r)

\* ---- the producer: e.Save(c) or SaveStruct(src, c), run by saveEntity

\* c <- p: blocks while the buffer is full
Save_send ==
    /\ gpc = "run" /\ toSend # <<>>
    /\ Len(c) < ChanCap
    /\ c' = Append(c, Head(toSend))
    /\ sent' = Append(sent, Head(toSend))
    /\ toSend' = Tail(toSend)
    /\ UNCHANGED <<cclosed, loadVars, saveIn, saveCall, gpc, gerr, saveCons>>

\* Save returns (for a struct: defer close(c)); err1 = its result
Save_return ==
    /\ gpc = "run" /\ toSend = <<>>
    /\ cclosed' = (cclosed \/ closes)
    /\ err1' = gerr
    /\ gpc' = "returned"
    /\ UNCHANGED <<c, loadVars, saveIn, wpc, sx, serr, toSend, gerr, sent, saveCons>>

\* ---- the consumer: propertiesToProto

\* (mutant) only a difference between the two Multiple flags is refused
multipleConflictMixedOnly(pm, pMultiple) == pm # pMultiple
\* (mutant) only the Multiple flag of the later Property is tested
multipleConflictNewOnly(pm, pMultiple) == ~pMultiple
\* the test on a second Property of a name whose first had Multiple = pm
multipleConflict(pm, pMultiple) == ~pm \/ ~pMultiple

\* (mutant) one indexed property more is let through
overLimitByTwo(n) == n > maxIndexedProperties + 1
\* len(e.Property) > maxIndexedProperties
overLimit(n) == n > maxIndexedProperties

\* (mutant) a nil *Key is encoded like any other
isNilKeyNever(t, v) == FALSE
\* case *Key: if v == nil { continue }
isNilKey(t, v) == t = "key" /\ v = 0

\* the body of for p := range src: the entity and prevMultiple after p,
\* or the error returned
propertyToProto(ent, prev, p) ==
    LET seen == p.Name \in DOMAIN prev
        prev2 == IF seen THEN prev ELSE (p.Name :> p.Multiple) @@ prev
        t == p.Value.t
        x(variant, val, meaning) == PbProp(p.Name, variant, val, meaning, p.Multiple)
        add(xp) ==
            IF p.NoIndex
            THEN [e |-> [ent EXCEPT !.RawProperty = Append(@, xp)], prev |-> prev2,
                  err |-> Nil]
            ELSE IF overLimit(Len(ent.Property) + 1)
            THEN [e |-> ent, prev |-> prev2, err |-> ErrTooManyIndexed]
            ELSE [e |-> [ent EXCEPT !.Property = Append(@, xp)], prev |-> prev2,
                  err |-> Nil]
        fail(err) == [e |-> ent, prev |-> prev2, err |-> err]
    IN  IF seen /\ multipleConflict(prev[p.Name], p.Multiple)
        THEN fail(ErrMultiple(p.Name))
        ELSE CASE t = "int64" -> add(x("Int64", p.Value.v, "NONE"))
               [] t = "bool" -> add(x("Boolean", p.Value.v, "NONE"))
               [] t = "string" -> add(x("String", p.Value.v, "NONE"))
               [] t = "float64" -> add(x("Double", p.Value.v, "NONE"))
               [] t = "key" ->
                    IF isNilKey(t, p.Value.v) THEN [e |-> ent, prev |-> prev2, err |-> Nil]
                    ELSE add(x("Reference", keyToReferenceValue(p.Value.v), "NONE"))
               [] t = "Time" -> add(x("Int64", p.Value.v, "GD_WHEN"))
               [] t = "BlobKey" -> add(x("String", p.Value.v, "BLOBKEY"))
               [] t = "bytes" ->
                    IF ~p.NoIndex THEN fail(ErrIndexedBytes(p.Name))
                    ELSE add(x("String", p.Value.v, "BLOB"))
               [] OTHER -> fail(ErrInvalidValue(p.Name))

\* for p := range src { ... }
propertiesToProto_recv ==
    /\ kpc = "range" /\ Len(c) > 0
    /\ LET r == propertyToProto(ep, prevMultiple, Head(c))
       IN  IF r.err # Nil
           THEN /\ kres' = [x |-> NilEntity, err |-> r.err]      \* return nil, err
                /\ kpc' = "drain"
                /\ UNCHANGED <<ep, prevMultiple>>
           ELSE /\ ep' = r.e
                /\ prevMultiple' = r.prev
                /\ UNCHANGED <<kres, kpc>>
    /\ c' = Tail(c)
    /\ UNCHANGED <<cclosed, loadVars, saveIn, saveCall, saveProd, donec>>

\* the range loop ends when src is closed and empty: return e, nil
propertiesToProto_end ==
    /\ kpc = "range" /\ Len(c) = 0 /\ cclosed
    /\ kres' = [x |-> ep, err |-> Nil]
    /\ kpc' = "drain"
    /\ UNCHANGED <<chanVars, loadVars, saveIn, saveCall, saveProd, ep, prevMultiple, donec>>

\* (mutant) propertiesToProto returns without draining src
drainSkipped(ch, closed) == TRUE
\* the deferred for _ = range src {} is over when src is closed and empty
drainOver(ch, closed) == Len(ch) = 0 /\ closed

\* defer func() { for _ = range src {} }(): discard one Property
propertiesToProto_drain ==
    /\ kpc = "drain" /\ ~drainOver(c, cclosed)
    /\ Len(c) > 0
    /\ c' = Tail(c)
    /\ UNCHANGED <<cclosed, loadVars, saveVars>>

\* x, err = propertiesToProto(...); close(donec)
propertiesToProto_done ==
    /\ kpc = "drain" /\ drainOver(c, cclosed)
    /\ sx' = kres.x /\ serr' = kres.err
    /\ donec' = TRUE
    /\ kpc' = "done"
    /\ UNCHANGED <<chanVars, loadVars, saveIn, wpc, err1, saveProd, ep, prevMultiple, kres>>

\* ---- Map source

\* valueToProto for the Go value of type t and payload v: the pb.Property,
\* or the error string
valueToProto(name, t, v, multiple) ==
    LET k == KindOf(t)
        meaning == CASE t = "bytes" -> "BLOB" [] t = "BlobKey" -> "BLOBKEY"
                     [] t = "Time" -> "GD_WHEN" [] OTHER -> "NONE"
        P(variant, val) ==
            [p |-> PbProp(name, variant, val, meaning, multiple), errStr |-> ""]
        none == PbProp(name, "None", 0, "NONE", multiple)
    IN  CASE k \in {"Int64", "Int8", "Int16"} -> P("Int64", v)
          [] k = "Bool" -> P("Boolean", v)
          [] k = "String" -> P("String", v)
          [] k = "Float64" -> P("Double", v)
          [] t = "key" ->
                IF v = 0 THEN [p |-> none, errStr |-> "nil key"]
                ELSE P("Reference", keyToReferenceValue(v))
          [] t = "bytes" -> P("String", v)
          [] OTHER -> [p |-> none, errStr |-> "unsupported datastore value type"]

\* (mutant) every value is indexed
addPropertyIndexed(ent, propProto, t) == [ent EXCEPT !.Property = Append(@, propProto)]
\* addProperty: a []byte value is raw, every other value indexed
addProperty(ent, propProto, t) ==
    IF t = "bytes" THEN [ent EXCEPT !.RawProperty = Append(@, propProto)]
    ELSE [ent EXCEPT !.Property = Append(@, propProto)]

\* nvToProto's loop over nv from entry i on; a slice entry from element j on
RECURSIVE nvLoop(_, _, _, _)
nvLoop(ent, nv, i, j) ==
    IF i > Len(nv) THEN [x |-> ent, err |-> Nil]
    ELSE LET name == nv[i].name
             val == nv[i].value
         IN  IF val.slice
             THEN IF j > Len(val.s) THEN nvLoop(ent, nv, i + 1, 1)
                  ELSE LET r == valueToProto(name, val.t, val.s[j], TRUE)
                       IN  IF r.errStr = "nil key" THEN nvLoop(ent, nv, i, j + 1)
                           ELSE IF r.errStr # ""
                           THEN [x |-> NilEntity, err |-> ErrCannotStore(name, val.t)]
                           ELSE nvLoop(addProperty(ent, r.p, val.t), nv, i, j + 1)
             ELSE LET r == valueToProto(name, val.t, val.v, FALSE)
                  IN  IF r.errStr = "nil key" THEN nvLoop(ent, nv, i + 1, 1)
                      ELSE IF r.errStr # ""
                      THEN [x |-> NilEntity, err |-> ErrCannotStore(name, val.t)]
                      ELSE nvLoop(addProperty(ent, r.p, val.t), nv, i + 1, 1)

nvToProto(k, nv) ==
    LET r == nvLoop(newEntity(k), nv, 1, 1)
    IN  IF r.err # Nil THEN r
        ELSE IF overLimit(Len(r.x.Property))
        THEN [x |-> NilEntity, err |-> ErrTooManyIndexed]
        ELSE r

\* saveMap: for name, value := range m { nv = append(nv, ...) }, in any of
\* the orders range can yield the entries
saveMapOrders(mm) ==
    LET present == {n \in DOMAIN mm : mm[n] # MNil}
        orders == {o \in SeqsUpTo(present, Cardinality(present)) :
                      Len(o) = Cardinality(present)
                      /\ \A n \in present : \E i \in 1..Len(o) : o[i] = n}
    IN  {[i \in 1..Len(o) |-> [name |-> o[i], value |-> mm[o[i]]]] : o \in orders}

\* ---- saveEntity

\* if m, ok := src.(Map); ok { return saveMap(defaultAppID, key, m) }
saveEntity_map ==
    /\ wpc = "start" /\ srcKind = "map"
    /\ LET r == nvToProto(key, mnv)
       IN  sx' = r.x /\ serr' = r.err
    /\ wpc' = "returned"
    /\ UNCHANGED <<chanVars, loadVars, saveIn, err1, saveProd, saveCons>>

\* c := make(chan Property, 32); donec := make(chan struct{});
\* go func() { x, err = propertiesToProto(...); close(donec) }();
\* err1 = e.Save(c) / SaveStruct(src, c)
saveEntity_spawn ==
    /\ wpc = "start" /\ srcKind \in {"pls", "struct"}
    /\ c' = <<>> /\ cclosed' = FALSE /\ donec' = FALSE
    /\ kpc' = "range" /\ ep' = newEntity(key) /\ prevMultiple' = <<>>
    /\ gpc' = "run"
    /\ IF srcKind = "struct"
       THEN LET r == structPLS_Save(styp, ssv, 1, [props |-> <<>>, err |-> Nil])
            IN  toSend' = r.props /\ gerr' = r.err
       ELSE toSend' = stream /\ gerr' = saveErr
    /\ wpc' = "save"
    /\ UNCHANGED <<loadVars, saveIn, sx, serr, err1, sent, kres>>

\* (mutant) the entity propertiesToProto built is returned with Save's error
saveEntityResultKeepsX(x, err, e1) == [x |-> x, err |-> IF e1 # Nil THEN e1 ELSE err]
\* if err1 != nil { return nil, err1 }; return x, err
saveEntityResult(x, err, e1) ==
    IF e1 # Nil THEN [x |-> NilEntity, err |-> e1] ELSE [x |-> x, err |-> err]

\* (mutant) saveEntity goes on without the receive from donec
doneIgnored(d) == TRUE
\* <-donec: possible once close(donec) has run
doneSignalled(d) == d

\* <-donec; if err1 != nil { return nil, err1 }; return x, err
saveEntity_wait ==
    /\ wpc = "save" /\ gpc = "returned"
    /\ doneSignalled(donec)
    /\ LET r == saveEntityResult(sx, serr, err1)
       IN  sx' = r.x /\ serr' = r.err
    /\ wpc' = "returned"
    /\ UNCHANGED <<chanVars, loadVars, saveIn, err1, saveProd, saveCons>>

\* the save side before saveEntity is called
SaveReady ==
    /\ wpc = "start" /\ sx = NilEntity /\ serr = Nil /\ err1 = Nil
    /\ gpc = "idle" /\ toSend = <<>> /\ gerr = Nil /\ sent = <<>>
    /\ kpc = "idle" /\ ep = NilEntity /\ prevMultiple = <<>>
    /\ kres = [x |-> NilEntity, err |-> Nil] /\ donec = FALSE

\* the save side when only loadEntity is called
SaveUnused ==
    /\ SaveReady
    /\ srcKind = "none" /\ key = <<>> /\ ssv = <<>> /\ smap = <<>> /\ mnv = <<>>
    /\ stream = <<>> /\ saveErr = Nil /\ closes = TRUE

----------------------------------------------------------------------------
(* Entities given to loadEntity *)

Names == {"a", "b"}

\* wire properties: each value variant, the meanings, a property with no
\* value and a Reference that does not resolve
PbAlphabet ==
    {PbProp("a", "Int64", 1, "GD_WHEN", FALSE),
     PbProp("b", "String", 2, "BLOB", TRUE),
     PbProp("a", "Reference", 0 - 1, "NONE", FALSE),
     PbProp("b", "Reference", 0, "NONE", FALSE),
     PbProp("a", "None", 0, "NONE", FALSE)}

\* the entities whose first k properties of s are indexed, the rest raw
Entities(S) ==
    UNION {{[Property |-> SubSeq(s, 1, k), RawProperty |-> SubSeq(s, k + 1, Len(s))] :
             k \in 0..Len(s)} : s \in S}

SmallEntities == Entities(SeqsUpTo(PbAlphabet, MaxProps))

\* An entity of n indexed and r raw properties, all different (the i-th
\* carries the integer i); bad > 0 puts a property with no value at
\* position bad of indexed ++ raw.
BigProp(i, bad) ==
    IF i = bad THEN PbProp("a", "None", 0, "NONE", FALSE)
    ELSE PbProp("a", "Int64", i, "NONE", TRUE)
BigEntity(n, r, bad) ==
    [Property |-> [i \in 1..n |-> BigProp(i, bad)],
     RawProperty |-> [i \in 1..r |-> BigProp(n + i, bad)]]

BigEntities ==
    {BigEntity(n, r, bad) :
        n \in {ChanCap - 1, ChanCap + BigExtra}, r \in {0, 1, BigExtra},
        bad \in {0, 1, ChanCap + 1}}

AllProps(e) == e.Property \o e.RawProperty
WellFormed(e) == \A i \in 1..Len(AllProps(e)) : protoValue(AllProps(e)[i]).err = Nil

\* the load side before loadEntity is called
LoadReady ==
    /\ errc = <<>>
    /\ props = <<>> /\ rawProps = <<>> /\ ppc = "idle" /\ pend = Nil
    /\ cpc = "idle" /\ cret = Nil /\ received = <<>>
    /\ lpc = "start" /\ lerr = Nil
    /\ fieldName = "" /\ reason = NoReason

\* the state before a call of loadEntity alone
LoadIdle ==
    /\ SaveUnused
    /\ c = <<>> /\ cclosed = FALSE
    /\ LoadReady

NoStruct == styp = <<>> /\ sv = <<>> /\ sv0 = <<>>
NoMap == m = <<>> /\ m0 = <<>>

\* ---- struct types

\* struct { I int64 `datastore:",noindex"`; N int8; Ss []string }
TypeA ==
    <<Fld("I", "int64", FALSE, TRUE, TRUE), Fld("N", "int8", FALSE, FALSE, TRUE),
      Fld("Ss", "string", TRUE, FALSE, TRUE)>>
\* struct { K *Key; Ks []*Key; B []byte }
TypeB ==
    <<Fld("K", "*Key", FALSE, FALSE, TRUE), Fld("Ks", "*Key", TRUE, FALSE, TRUE),
      Fld("B", "[]byte", FALSE, FALSE, TRUE)>>
\* struct { T Time; u int64; X []string `datastore:"-"`;
\*          F float64 `datastore:",noindex"`;
\*          BK appengine.BlobKey `datastore:",noindex"`; Bo bool }
TypeC ==
    <<Fld("T", "Time", FALSE, FALSE, TRUE), Fld("u", "int64", FALSE, FALSE, FALSE),
      Fld("-", "string", TRUE, FALSE, TRUE), Fld("F", "float64", FALSE, TRUE, TRUE),
      Fld("BK", "BlobKey", FALSE, TRUE, TRUE), Fld("Bo", "bool", FALSE, FALSE, TRUE)>>
\* struct { I int64; U uint; S string }: uint is not a supported type
TypeU ==
    <<Fld("I", "int64", FALSE, FALSE, TRUE), Fld("U", "uint", FALSE, FALSE, TRUE),
      Fld("S", "string", FALSE, FALSE, TRUE)>>

\* struct { Ss []string; I int64; U uint }
TypeV ==
    <<Fld("Ss", "string", TRUE, FALSE, TRUE), Fld("I", "int64", FALSE, FALSE, TRUE),
      Fld("U", "uint", FALSE, FALSE, TRUE)>>

\* struct { I int64; Us []uint }
TypeW ==
    <<Fld("I", "int64", FALSE, FALSE, TRUE), Fld("Us", "uint", TRUE, FALSE, TRUE)>>

\* struct { N8 int8; N16 int16; N32 int32; Ns []int8 }
TypeN ==
    <<Fld("N8", "int8", FALSE, FALSE, TRUE), Fld("N16", "int16", FALSE, FALSE, TRUE),
      Fld("N32", "int32", FALSE, FALSE, TRUE), Fld("Ns", "int8", TRUE, FALSE, TRUE)>>

StructTypes == {TypeA, TypeB, TypeC, TypeN}

\* the zero value of a struct type, and a value with every field populated
ZeroStruct(typ) ==
    [i \in 1..Len(typ) |-> IF typ[i].slice THEN <<>> ELSE Val(typ[i].typ, 0)]
FullStruct(typ) ==
    [i \in 1..Len(typ) |-> IF typ[i].slice THEN <<Val(typ[i].typ, 9)>>
                           ELSE Val(typ[i].typ, 9)]

\* wire properties aimed at the fields of a struct type: matching ones and
\* each kind of mismatch
LoadAlphabet(typ) ==
    CASE typ = TypeA ->
            {PbProp("I", "Int64", 7, "NONE", FALSE),
             PbProp("I", "String", 1, "NONE", FALSE),
             PbProp("I", "Int64", 3, "NONE", TRUE),
             PbProp("N", "Int64", 200, "NONE", FALSE),
             PbProp("Ss", "String", 1, "NONE", TRUE),
             PbProp("Ss", "String", 2, "NONE", FALSE),
             PbProp("zz", "Int64", 1, "NONE", FALSE)}
      [] typ = TypeB ->
            {PbProp("K", "Reference", 0 - 1, "NONE", FALSE),
             PbProp("K", "Int64", 1, "NONE", FALSE),
             PbProp("Ks", "Reference", 0 - 1, "NONE", TRUE),
             PbProp("Ks", "Reference", 0 - 2, "NONE", TRUE),
             PbProp("B", "String", 1, "BLOB", FALSE),
             PbProp("B", "String", 1, "NONE", FALSE)}
      [] typ = TypeN ->
            {PbProp("N8", "Int64", 127, "NONE", FALSE),
             PbProp("N8", "Int64", 0 - 129, "NONE", FALSE),
             PbProp("N16", "Int64", 0 - 32768, "NONE", FALSE),
             PbProp("N16", "Int64", 32768, "NONE", FALSE),
             PbProp("N32", "Int64", 2147483647, "NONE", FALSE),
             PbProp("Ns", "Int64", 5, "NONE", TRUE),
             PbProp("Ns", "Int64", 128, "NONE", TRUE)}
      [] OTHER ->
            {PbProp("T", "Int64", 5, "GD_WHEN", FALSE),
             PbProp("u", "Int64", 1, "NONE", FALSE),
             PbProp("X", "String", 1, "NONE", FALSE),
             PbProp("F", "Double", 2, "NONE", FALSE),
             PbProp("BK", "String", 1, "BLOBKEY", FALSE),
             PbProp("Bo", "Boolean", 1, "NONE", FALSE),
             PbProp("Bo", "None", 0, "NONE", FALSE)}

\* the entities of at most MaxStructProps properties whose last property,
\* or none, is raw
StructEntities(typ) ==
    UNION {{[Property |-> SubSeq(s, 1, k), RawProperty |-> SubSeq(s, k + 1, Len(s))] :
             k \in {Len(s), IF Len(s) > 0 THEN Len(s) - 1 ELSE 0}} :
           s \in SeqsUpTo(LoadAlphabet(typ), MaxStructProps)}

\* loadEntity on a struct pointer
LoadStructInit ==
    /\ LoadIdle /\ NoMap
    /\ dstKind = "struct"
    /\ quota = 0 /\ plsErr = Nil
    /\ styp \in StructTypes
    /\ src \in StructEntities(styp)
    /\ sv0 \in {ZeroStruct(styp), FullStruct(styp)}
    /\ sv = sv0

LoadStructNext ==
    \/ loadEntity_spawn
    \/ protoToProperties_next
    \/ protoToProperties_send
    \/ protoToProperties_errc
    \/ protoToProperties_close
    \/ structPLS_Load_recv
    \/ structPLS_Load_return
    \/ loadEntity_return
    \/ loadEntity_defer

LoadStructSpec == LoadStructInit /\ [][LoadStructNext]_vars

\* ---- Maps

MapNames == {"a", "b"}
EmptyMap == [n \in MapNames |-> MNil]
Maps == {EmptyMap, [EmptyMap EXCEPT !["a"] = MVal("int64", 9)],
         [EmptyMap EXCEPT !["b"] = MSlice("bytes", <<9>>)]}

\* loadEntity on a Map
\* wire properties for a Map: those of PbAlphabet, and Multiple and single
\* properties of one name, of the same and of another type
MapAlphabet ==
    PbAlphabet \cup
    {PbProp("a", "Int64", 1, "NONE", FALSE),
     PbProp("a", "Int64", 2, "NONE", TRUE),
     PbProp("a", "String", 1, "NONE", TRUE)}

LoadMapInit ==
    /\ LoadIdle /\ NoStruct
    /\ dstKind = "map"
    /\ quota = 0 /\ plsErr = Nil
    /\ src \in Entities(SeqsUpTo(MapAlphabet, MaxMapProps))
    /\ m0 \in Maps
    /\ m = m0

LoadMapSpec == LoadMapInit /\ [][loadEntity_map]_vars

\* loadEntity on a PropertyLoadSaver
LoadBridgeInit ==
    /\ LoadIdle /\ NoStruct /\ NoMap
    /\ dstKind = "pls"
    /\ \/ /\ src \in SmallEntities
          /\ quota \in 0..(MaxProps + 1)
       \/ /\ src \in BigEntities
          /\ quota \in {0, 1, ChanCap, ChanCap + BigExtra + BigExtra + 1}
    /\ plsErr \in {Nil, ErrUser}

LoadBridgeNext ==
    \/ loadEntity_spawn
    \/ protoToProperties_next
    \/ protoToProperties_send
    \/ protoToProperties_errc
    \/ protoToProperties_close
    \/ pls_Load_recv
    \/ pls_Load_return
    \/ loadEntity_return
    \/ loadEntity_defer

LoadBridgeSpec == LoadBridgeInit /\ [][LoadBridgeNext]_vars

\* The Go scheduler runs every goroutine that can take a step.
LoadBridgeFairSpec ==
    /\ LoadBridgeSpec
    /\ WF_vars(protoToProperties_next)
    /\ WF_vars(protoToProperties_send)
    /\ WF_vars(protoToProperties_errc)
    /\ WF_vars(protoToProperties_close)
    /\ WF_vars(pls_Load_recv)
    /\ WF_vars(pls_Load_return)
    /\ WF_vars(loadEntity_spawn)
    /\ WF_vars(loadEntity_return)
    /\ WF_vars(loadEntity_defer)

\* loadEntity on any destination
LoadInit == LoadBridgeInit \/ LoadStructInit \/ LoadMapInit

LoadNext ==
    \/ loadEntity_map
    \/ loadEntity_spawn
    \/ protoToProperties_next
    \/ protoToProperties_send
    \/ protoToProperties_errc
    \/ protoToProperties_close
    \/ pls_Load_recv
    \/ pls_Load_return
    \/ structPLS_Load_recv
    \/ structPLS_Load_return
    \/ loadEntity_return
    \/ loadEntity_defer

LoadSpec == LoadInit /\ [][LoadNext]_vars

----------------------------------------------------------------------------
(* Sources given to saveEntity *)

\* keys: a root key, a key with a parent, a key with a grandparent
Keys == {<<1>>, <<1, 2>>, <<1, 2, 3>>}

\* the load side when only saveEntity is called
LoadUnused ==
    /\ LoadReady /\ NoMap
    /\ dstKind = "none" /\ src = [Property |-> <<>>, RawProperty |-> <<>>]
    /\ quota = 0 /\ plsErr = Nil /\ sv = <<>> /\ sv0 = <<>>

\* the values a field can hold
FieldValues(f) ==
    IF f.slice
    THEN SeqsUpTo({Val(f.typ, v) : v \in (IF f.typ = "*Key" THEN 0..2 ELSE 1..2)}, MaxSlice)
    ELSE {Val(f.typ, v) : v \in 0..1}

\* the values of a struct type, from field i on
RECURSIVE StructValues(_, _)
StructValues(typ, i) ==
    IF i > Len(typ) THEN {<<>>}
    ELSE {<<h>> \o t : h \in FieldValues(typ[i]), t \in StructValues(typ, i + 1)}

SaveStructTypes == {TypeA, TypeB, TypeC, TypeU, TypeV, TypeW}

\* saveEntity on a struct pointer
SaveStructInit ==
    /\ c = <<>> /\ cclosed = FALSE
    /\ LoadUnused /\ SaveReady
    /\ srcKind = "struct"
    /\ key \in Keys
    /\ styp \in SaveStructTypes
    /\ ssv \in StructValues(styp, 1)
    /\ smap = <<>> /\ mnv = <<>> /\ stream = <<>> /\ saveErr = Nil /\ closes = TRUE

\* the Properties a PropertyLoadSaver may send: consistent and conflicting
\* Multiple flags, a nil *Key, raw and indexed []byte, a Value of a type
\* that is none of the supported ones
StreamAlphabet ==
    {Prop("a", Val("int64", 1), FALSE, FALSE),
     Prop("a", Val("int64", 2), FALSE, TRUE),
     Prop("a", Val("key", 0), FALSE, TRUE),
     Prop("b", Val("bytes", 1), TRUE, FALSE),
     Prop("b", Val("bytes", 1), FALSE, FALSE),
     Prop("b", Val("int32", 1), FALSE, FALSE),
     Prop("b", Val("string", 1), TRUE, TRUE)}

\* n raw Properties, all different; bad > 0 puts a Value of an invalid
\* type at position bad
BigStream(n, bad) ==
    [i \in 1..n |-> IF i = bad THEN Prop("a", Val("int32", i), TRUE, TRUE)
                    ELSE Prop("a", Val("int64", i), TRUE, TRUE)]
BigStreams == {BigStream(ChanCap + BigExtra + 1, bad) : bad \in 0..2}

\* saveEntity on a PropertyLoadSaver
SaveBridgeInit ==
    /\ c = <<>> /\ cclosed = FALSE
    /\ LoadUnused /\ SaveReady
    /\ srcKind = "pls"
    /\ key \in Keys
    /\ styp = <<>> /\ ssv = <<>> /\ smap = <<>> /\ mnv = <<>>
    /\ stream \in SeqsUpTo(StreamAlphabet, MaxStream) \cup BigStreams
    /\ saveErr \in {Nil, ErrUser}
    /\ closes \in BOOLEAN

\* Map sources: scalars, a nil *Key, slices, a value of unsupported type
SaveMaps ==
    {[a |-> x, b |-> y] :
        x \in {MNil, MVal("int64", 1), MVal("key", 0), MVal("uint", 1),
               MSlice("int64", <<1, 2, 1>>)}
                \cup {MSlice("int64", s) : s \in SeqsUpTo(1..2, MaxSlice)},
        y \in {MNil, MVal("bytes", 1), MVal("string", 1), MVal("uint", 1),
               MSlice("key", <<1, 0, 2>>), MSlice("bytes", <<1, 2>>)}}

\* saveEntity on a Map
SaveMapInit ==
    /\ c = <<>> /\ cclosed = FALSE
    /\ LoadUnused /\ SaveReady
    /\ srcKind = "map"
    /\ key \in Keys
    /\ styp = <<>> /\ ssv = <<>> /\ stream = <<>> /\ saveErr = Nil /\ closes = TRUE
    /\ smap \in SaveMaps
    /\ mnv \in saveMapOrders(smap)

\* the two goroutines of saveEntity on a PropertyLoadSaver or a struct
SaveChanNext ==
    \/ saveEntity_spawn
    \/ Save_send
    \/ Save_return
    \/ propertiesToProto_recv
    \/ propertiesToProto_end
    \/ propertiesToProto_drain
    \/ propertiesToProto_done
    \/ saveEntity_wait

SaveBridgeSpec == SaveBridgeInit /\ [][SaveChanNext]_vars
SaveStructSpec == SaveStructInit /\ [][SaveChanNext]_vars

\* The Go scheduler runs every goroutine that can take a step.
SaveChanFairness ==
    /\ WF_vars(saveEntity_spawn)
    /\ WF_vars(Save_send)
    /\ WF_vars(Save_return)
    /\ WF_vars(propertiesToProto_recv)
    /\ WF_vars(propertiesToProto_end)
    /\ WF_vars(propertiesToProto_drain)
    /\ WF_vars(propertiesToProto_done)
    /\ WF_vars(saveEntity_wait)

\* the Properties that make propertiesToProto fail, and one that does not
FatalAlphabet ==
    {Prop("a", Val("int64", 1), FALSE, FALSE),
     Prop("a", Val("int64", 2), FALSE, TRUE),
     Prop("b", Val("bytes", 1), FALSE, FALSE),
     Prop("b", Val("int32", 1), FALSE, FALSE)}

SaveFatalInit ==
    /\ SaveBridgeInit
    /\ stream \in SeqsUpTo(FatalAlphabet, MaxStream) \cup BigStreams

SaveChanFairSpec ==
    /\ SaveFatalInit \/ SaveStructInit
    /\ [][SaveChanNext]_vars
    /\ SaveChanFairness

\* saveEntity on any source
SaveInit == SaveBridgeInit \/ SaveStructInit \/ SaveMapInit
SaveNext == saveEntity_map \/ SaveChanNext
SaveSpec == SaveInit /\ [][SaveNext]_vars

\* ---- decode(encode(R)): saveEntity on a struct, then loadEntity of the
\* entity it returned into a zero struct of the same type

RoundTrip_load ==
    /\ wpc = "returned" /\ serr = Nil
    /\ dstKind = "none"
    /\ dstKind' = "struct"
    /\ src' = [Property |-> sx.Property, RawProperty |-> sx.RawProperty]
    /\ sv0' = ZeroStruct(styp) /\ sv' = ZeroStruct(styp)
    /\ UNCHANGED <<chanVars, quota, plsErr, styp, m0, callVars, prodVars, consVars, m,
                   saveVars>>

RoundTripNext == SaveChanNext \/ RoundTrip_load \/ LoadStructNext

RoundTripSpec == SaveStructInit /\ [][RoundTripNext]_vars

----------------------------------------------------------------------------
(* Properties of the decode direction *)

IsPrefix(s, t) == Len(s) <= Len(t) /\ SubSeq(t, 1, Len(s)) = s
Last(s) == s[Len(s)]
SetMax(S) == CHOOSE x \in S : \A y \in S : y <= x

\* the Properties of e in source order: indexed first, then raw
Expected(e) ==
    [i \in 1..Len(AllProps(e)) |-> protoProperty(AllProps(e)[i], i > Len(e.Property))]

\* position of the first property of e that protoToProperties cannot
\* convert (one past the end when there is none)
FirstBad(e) ==
    IF WellFormed(e) THEN Len(AllProps(e)) + 1
    ELSE CHOOSE i \in 1..Len(AllProps(e)) :
            /\ protoValue(AllProps(e)[i]).err # Nil
            /\ \A j \in 1..(i - 1) : protoValue(AllProps(e)[j]).err = Nil

\* the consumer returned because it found the channel closed and empty
SawClose == cpc = "returned" /\ (dstKind = "struct" \/ Len(received) < quota)

\* C1: once the destination's Load has returned, whether or not it took
\* every property, the goroutine protoToProperties eventually terminates
\* (it is not left blocked on its send to the property channel).
C1_ProducerTerminates == (cpc = "returned") ~> (ppc = "done")

\* C3: for an entity without malformed property, what the consumer has
\* received, followed by what is queued, is always a prefix of the indexed
\* properties in order followed by the raw ones (NoIndex false for the
\* former, true for the latter); a consumer that reads to the end of the
\* channel has received exactly that sequence.
C3_DecodeOrder ==
    (lpc # "start" /\ WellFormed(src)) =>
        /\ IsPrefix(received \o c, Expected(src))
        /\ \A i \in 1..Len(received) : received[i].NoIndex = (i > Len(src.Property))
        /\ SawClose => received = Expected(src)

C3_Witness ==
    /\ SawClose /\ WellFormed(src)
    /\ Len(src.Property) >= 1 /\ Len(src.RawProperty) >= 1
    /\ received = Expected(src)
    /\ received[1] # Last(received)

\* ---- struct destination

\* the reason loadProperty gives for p (it does not depend on the field's
\* current value)
ReasonOf(p) == loadProperty(styp, ZeroStruct(styp), p, p.Multiple).reason
Mismatches(rs) == {i \in 1..Len(rs) : ReasonOf(rs[i]) # NoReason}

\* the value field i must hold after the Properties rs were loaded into sv0
ExpectedField(i, rs) ==
    LET Hit(p) == byName(styp, p.Name) = i /\ ReasonOf(p) = NoReason
        hits == SelectSeq(rs, Hit)
    IN  IF styp[i].slice
        THEN sv0[i] \o [j \in 1..Len(hits) |-> Val(styp[i].typ, hits[j].Value.v)]
        ELSE IF hits = <<>> THEN sv0[i]
        ELSE Val(styp[i].typ, Last(hits).Value.v)

\* C6: structPLS.Load returns only when the channel is closed and empty,
\* having processed every property the producer delivered; every property
\* that matches a settable field of compatible type is stored; the result
\* is nil when none mismatched, and otherwise one ErrFieldMismatch carrying
\* the name and reason of the last mismatching property.
C6_BestEffortLoad ==
    (dstKind = "struct" /\ cpc = "returned") =>
        /\ c = <<>> /\ cclosed
        /\ received = SubSeq(Expected(src), 1, FirstBad(src) - 1)
        /\ \A i \in 1..Len(styp) : sv[i] = ExpectedField(i, received)
        /\ cret = IF Mismatches(received) = {} THEN Nil
                  ELSE LET p == received[SetMax(Mismatches(received))]
                       IN  ErrFieldMismatch(p.Name, ReasonOf(p))

C6_Witness ==
    /\ dstKind = "struct" /\ cpc = "returned"
    /\ Cardinality(Mismatches(received)) >= 2
    /\ ReasonOf(received[1]) # NoReason
    /\ ReasonOf(received[1]) # ReasonOf(Last(received))
    /\ received[1].Name # Last(received).Name
    /\ sv # sv0

\* the step of structPLS.Load that handles the property p
LoadsProperty(p) ==
    /\ cpc = "recv" /\ dstKind = "struct" /\ Len(c) > 0
    /\ p = Head(c)
    /\ received' = Append(received, p)
TargetsSlice(p) ==
    byName(styp, p.Name) # 0 /\ styp[byName(styp, p.Name)].canSet
        /\ styp[byName(styp, p.Name)].slice
TargetsScalar(p) ==
    byName(styp, p.Name) # 0 /\ styp[byName(styp, p.Name)].canSet
        /\ ~styp[byName(styp, p.Name)].slice
\* the Property at the head of the channel, if any
NextInC == IF c = <<>> THEN {} ELSE {Head(c)}
RequiresSlice == <<"multiple-valued property requires a slice field type">>

HasNoValue(e) == \E i \in 1..Len(AllProps(e)) : AllProps(e)[i].Variant = "None"

\* C8: loadEntity of an entity holding a property with no populated value
\* returns a non-nil error, whatever the destination (Map,
\* PropertyLoadSaver, struct).
C8_NoValueIsAnError == (lpc = "returned" /\ HasNoValue(src)) => lerr # Nil

----------------------------------------------------------------------------
(* Properties of the encode direction *)

\* propertiesToProto returned an error before the source was exhausted
FatalSeen == kres.err # Nil

\* C2: once propertiesToProto has detected a fatal condition it keeps
\* receiving until the channel is closed, so Save always gets to send every
\* Property it has and to return, however many are left; and when Save
\* closes the channel, saveEntity returns.
C2_ProducerNeverStuck ==
    /\ (gpc = "run") ~> (gpc = "returned" /\ toSend = <<>>)
    /\ (closes /\ wpc = "save") ~> (wpc = "returned")

\* a fatal condition on one of the first Properties of a stream longer than
\* the channel's buffer, and saveEntity has returned it
C2_Witness ==
    /\ srcKind = "pls" /\ wpc = "returned"
    /\ FatalSeen /\ serr = kres.err
    /\ Len(stream) > ChanCap + 1 /\ sent = stream

\* s holds two Properties of one name, exactly one of them Multiple
Conflict(s) ==
    \E i, j \in 1..Len(s) :
        /\ i < j
        /\ s[i].Name = s[j].Name
        /\ s[i].Multiple # s[j].Multiple

\* C4: when a PropertyLoadSaver has sent two Properties of the same name
\* of which exactly one has Multiple set, in either order and with any other
\* Properties around them, saveEntity returns an error and no entity.
C4_MultipleIsConsistent ==
    (srcKind = "pls" /\ wpc = "returned" /\ Conflict(sent)) =>
        (serr # Nil /\ sx = NilEntity)

\* a Multiple Property after a single one of the same name, another name in
\* between, reported by propertiesToProto
C4_Witness ==
    /\ srcKind = "pls" /\ wpc = "returned" /\ saveErr = Nil
    /\ Len(sent) = 3
    /\ sent[1].Name = sent[3].Name /\ sent[2].Name # sent[1].Name
    /\ ~sent[1].Multiple /\ sent[3].Multiple
    /\ serr = ErrMultiple(sent[3].Name) /\ sx = NilEntity

\* how many elements of s satisfy T
CountIf(s, T(_)) == Cardinality({i \in 1..Len(s) : T(s[i])})

\* a Property that asks for an index and is not a nil *Key
IsIndexed(p) == ~p.NoIndex /\ ~(p.Value.t = "key" /\ p.Value.v = 0)

Supported == {"int64", "bool", "string", "float64", "key", "Time", "BlobKey", "bytes"}

\* a fatal condition other than the limit among the Properties s: a name
\* sent twice and not Multiple both times, an indexed []byte, a Value of
\* invalid type
OtherFatalIn(s) ==
    \/ \E i, j \in 1..Len(s) :
          i < j /\ s[i].Name = s[j].Name /\ ~(s[i].Multiple /\ s[j].Multiple)
    \/ \E i \in 1..Len(s) :
          \/ s[i].Value.t \notin Supported
          \/ s[i].Value.t = "bytes" /\ ~s[i].NoIndex

\* the indexed properties one Map value stands for
MapIndexed(val) ==
    LET ok(x) == val.t # "bytes" /\ valueToProto("", val.t, x, val.slice).errStr = ""
    IN  IF val.slice THEN CountIf(val.s, ok) ELSE (IF ok(val.v) THEN 1 ELSE 0)

\* the source goes over the limit at its k-th Property or entry, and nothing
\* up to there is fatal for another reason
ExceedsAt(k) ==
    IF srcKind = "map"
    THEN /\ k \in 1..Len(mnv)
         /\ \A i \in 1..k : mnv[i].value.t \in Supported
         /\ SeqSum([i \in 1..k |-> MapIndexed(mnv[i].value)]) > maxIndexedProperties
    ELSE /\ k \in 1..Len(sent)
         /\ ~OtherFatalIn(SubSeq(sent, 1, k))
         /\ CountIf(SubSeq(sent, 1, k), IsIndexed) > maxIndexedProperties

\* C5: for a Map, a struct and a PropertyLoadSaver alike, when the source
\* yields more than maxIndexedProperties indexed properties, the limit is
\* tested after each addition: unless something before the first property
\* in excess is fatal, or Save itself returns an error, saveEntity fails
\* with "too many indexed properties" and returns no entity.
C5_FailsAtFirstExcess ==
    (wpc = "returned" /\ err1 = Nil /\ \E k \in 1..(MaxStream + MaxSlice + ChanCap + BigExtra) : ExceedsAt(k)) =>
        (serr = ErrTooManyIndexed /\ sx = NilEntity)

----------------------------------------------------------------------------
(* Properties of structs: encode, and encode followed by decode *)

\* the wire property expected for an element el of the slice field t
WireOf(t, el) ==
    CASE el.t \in {"int64", "int8", "int16", "int32"} -> PbProp(t.name, "Int64", el.v, "NONE", TRUE)
      [] el.t = "Time" -> PbProp(t.name, "Int64", el.v, "GD_WHEN", TRUE)
      [] el.t = "bool" -> PbProp(t.name, "Boolean", el.v, "NONE", TRUE)
      [] el.t = "string" -> PbProp(t.name, "String", el.v, "NONE", TRUE)
      [] el.t = "BlobKey" -> PbProp(t.name, "String", el.v, "BLOBKEY", TRUE)
      [] el.t = "float64" -> PbProp(t.name, "Double", el.v, "NONE", TRUE)
      [] el.t = "*Key" -> PbProp(t.name, "Reference", 0 - el.v, "NONE", TRUE)
      [] OTHER -> PbProp(t.name, "None", 0, "NONE", TRUE)

\* the properties of the entity saveEntity returned that are named after
\* field i, in the entity's order
FieldProps(i) ==
    LET named(x) == x.Name = styp[i].name
    IN  SelectSeq(sx.Property \o sx.RawProperty, named)

NotNilKey(el) == ~(el.t = "*Key" /\ el.v = 0)
IsSaved(t) == t.name # "-" /\ t.canSet

SavedStruct == srcKind = "struct" /\ wpc = "returned" /\ serr = Nil

\* C10 as stated: every slice field of length N is encoded as exactly N
\* properties named after it, Multiple, holding its elements in order.
C10_ExactlyN ==
    SavedStruct =>
        \A i \in 1..Len(styp) :
            styp[i].slice =>
                FieldProps(i) = [j \in 1..Len(ssv[i]) |-> WireOf(styp[i], ssv[i][j])]

\* C10: every slice field that is saved (exported, not tagged "-") is
\* encoded as one property per element that is not a nil *Key, named
\* after the field, Multiple, holding those elements in order.
C10_OnePerNonNilElement ==
    SavedStruct =>
        \A i \in 1..Len(styp) :
            (styp[i].slice /\ IsSaved(styp[i])) =>
                LET els == SelectSeq(ssv[i], NotNilKey)
                IN  FieldProps(i) = [j \in 1..Len(els) |-> WireOf(styp[i], els[j])]

\* a slice of two saved as two properties, and a slice of two *Key of
\* which one is nil saved as one
C10_Witness ==
    /\ SavedStruct
    /\ \E i \in 1..Len(styp) :
          /\ styp[i].slice /\ IsSaved(styp[i]) /\ Len(ssv[i]) = 2
          /\ \/ Len(FieldProps(i)) = 2 /\ FieldProps(i)[1] # FieldProps(i)[2]
             \/ ~NotNilKey(ssv[i][1]) /\ Len(FieldProps(i)) = 1

AllSupported(typ) == \A i \in 1..Len(typ) : typ[i].typ # "uint"

\* the round trip is over: loadEntity has returned
RoundTripDone == dstKind = "struct" /\ lpc = "returned"

\* C9 as stated: for every struct R of supported field types, saveEntity
\* succeeds, and loadEntity of its entity into a zero struct of R's type
\* returns no error and leaves it equal to R.
C9_RoundTrip ==
    (srcKind = "struct" /\ AllSupported(styp)) =>
        /\ wpc = "returned" => serr = Nil
        /\ RoundTripDone => (lerr = Nil /\ sv = ssv)

\* R without what Save does not send: fields that are not saved are zero,
\* nil elements of a []*Key are gone
SavedPart(typ, R) ==
    [i \in 1..Len(typ) |->
        IF ~IsSaved(typ[i]) THEN ZeroStruct(typ)[i]
        ELSE IF typ[i].slice THEN SelectSeq(R[i], NotNilKey)
        ELSE R[i]]

\* C9: for every struct R of supported field types that yields at most
\* maxIndexedProperties indexed properties, saveEntity succeeds, and
\* loadEntity of its entity into a zero struct of R's type returns no error
\* and leaves it equal to R in every saved field, but for the nil elements
\* of []*Key fields, which are dropped.
C9_RoundTripOfSavedPart ==
    (srcKind = "struct" /\ AllSupported(styp) /\ wpc = "returned"
        /\ CountIf(sent, IsIndexed) <= maxIndexedProperties) =>
        /\ serr = Nil
        /\ RoundTripDone => (lerr = Nil /\ sv = SavedPart(styp, ssv))

\* a struct with a *Key, a []*Key holding nil and a []byte has made the
\* round trip
C9_Witness ==
    /\ srcKind = "struct" /\ styp = TypeB /\ RoundTripDone
    /\ ssv[1].v = 1 /\ Len(ssv[2]) = 2 /\ ssv[2][1].v = 0 /\ ssv[3].v = 1
    /\ lerr = Nil /\ sv = SavedPart(styp, ssv) /\ sv # ssv

----------------------------------------------------------------------------
(* Properties of the entity saveEntity returns *)

\* the Properties a Map source stands for, in the order of nv: a slice
\* entry is one Multiple Property per element, []byte values are raw
RECURSIVE MapProps(_)
MapProps(entries) ==
    IF entries = <<>> THEN <<>>
    ELSE LET h == Head(entries)
             one(x, multiple) == Prop(h.name, Val(h.value.t, x), h.value.t = "bytes", multiple)
         IN  (IF h.value.slice
              THEN [j \in 1..Len(h.value.s) |-> one(h.value.s[j], TRUE)]
              ELSE <<one(h.value.v, FALSE)>>)
             \o MapProps(Tail(entries))

\* the type of the Property Value that holds a struct field of type t
PropType(t) ==
    CASE t = "*Key" -> "key"
      [] t = "[]byte" -> "bytes"
      [] t \in {"int8", "int16", "int32"} -> "int64"
      [] OTHER -> t

\* the Properties a struct source stands for, from field i on, in field
\* order: a slice field is one Multiple Property per element, a []byte
\* field is raw
RECURSIVE StructProps(_, _, _)
StructProps(typ, R, i) ==
    IF i > Len(typ) THEN <<>>
    ELSE LET t == typ[i]
             one(el, multiple) ==
                 Prop(t.name, Val(PropType(el.t), el.v), t.noIndex \/ el.t = "[]byte", multiple)
         IN  (IF ~IsSaved(t) THEN <<>>
              ELSE IF t.slice THEN [j \in 1..Len(R[i]) |-> one(R[i][j], TRUE)]
              ELSE <<one(R[i], FALSE)>>)
             \o StructProps(typ, R, i + 1)

\* the values the source of saveEntity yields, as Properties, in order
Yielded ==
    CASE srcKind = "map" -> MapProps(mnv)
      [] srcKind = "struct" -> StructProps(styp, ssv, 1)
      [] OTHER -> sent

IsNilKeyProp(p) == p.Value.t = "key" /\ p.Value.v = 0
NotNilKeyProp(p) == ~IsNilKeyProp(p)
IsRaw(p) == p.NoIndex /\ ~IsNilKeyProp(p)

\* the wire property expected for the Property p
PbOf(p) ==
    LET t == p.Value.t
        v == p.Value.v
    IN  CASE t = "int64" -> PbProp(p.Name, "Int64", v, "NONE", p.Multiple)
          [] t = "Time" -> PbProp(p.Name, "Int64", v, "GD_WHEN", p.Multiple)
          [] t = "bool" -> PbProp(p.Name, "Boolean", v, "NONE", p.Multiple)
          [] t = "string" -> PbProp(p.Name, "String", v, "NONE", p.Multiple)
          [] t = "BlobKey" -> PbProp(p.Name, "String", v, "BLOBKEY", p.Multiple)
          [] t = "bytes" -> PbProp(p.Name, "String", v, "BLOB", p.Multiple)
          [] t = "float64" -> PbProp(p.Name, "Double", v, "NONE", p.Multiple)
          [] t = "key" -> PbProp(p.Name, "Reference", 0 - v, "NONE", p.Multiple)
          [] OTHER -> PbProp(p.Name, "None", 0, "NONE", p.Multiple)

\* the indexed and the raw list expected for the Properties s
ExpectedIndexed(s) ==
    LET f == SelectSeq(s, IsIndexed) IN [i \in 1..Len(f) |-> PbOf(f[i])]
ExpectedRaw(s) ==
    LET f == SelectSeq(s, IsRaw) IN [i \in 1..Len(f) |-> PbOf(f[i])]

\* nothing makes the encoding of the Properties s fail
Clean(s) ==
    /\ err1 = Nil
    /\ ~OtherFatalIn(s)
    /\ CountIf(s, IsIndexed) <= maxIndexedProperties

HasNilKey == \E i \in 1..Len(Yielded) : IsNilKeyProp(Yielded[i])

\* the entity holds the values that are not nil keys, and nothing else
NilKeysOmitted ==
    /\ serr = Nil
    /\ sx.Property = ExpectedIndexed(Yielded)
    /\ sx.RawProperty = ExpectedRaw(Yielded)

\* C11 as stated: a nil *Key in the source adds no property, causes no
\* error and does not stop the encoding: the source is encoded as it
\* would be without its nil keys.
C11_NilKeyIsAbsent ==
    (wpc = "returned" /\ HasNilKey /\ Clean(SelectSeq(Yielded, NotNilKeyProp))) =>
        NilKeysOmitted

\* C11: a nil *Key in the source adds no property to either list and
\* does not stop the encoding; the source is encoded as it would be without
\* its nil keys, but for a streamed Property holding a nil *Key, whose name
\* and Multiple flag still take part in the consistency test.
C11_NilKeyAddsNothing ==
    (wpc = "returned" /\ HasNilKey /\ Clean(Yielded)) => NilKeysOmitted

\* a nil key followed by another value, both lists as without the nil key
C11_Witness ==
    /\ wpc = "returned" /\ Clean(Yielded) /\ NilKeysOmitted
    /\ \E i \in 1..Len(Yielded) : IsNilKeyProp(Yielded[i]) /\ i < Len(Yielded)
    /\ Len(sx.Property) + Len(sx.RawProperty) > 0

\* C12: whatever the source, saveEntity returns a nil entity with every
\* non-nil error, and an entity with a nil error.
C12_EntityOrError ==
    wpc = "returned" => (serr # Nil <=> sx = NilEntity)

\* propertiesToProto had built an entity, Save returned an error, and
\* saveEntity returned that error and no entity
C12_Witness ==
    /\ wpc = "returned" /\ err1 # Nil
    /\ kres.err = Nil /\ kres.x # NilEntity /\ Len(kres.x.Property) > 0
    /\ serr = err1 /\ sx = NilEntity

----------------------------------------------------------------------------
(* Further properties of the decode direction *)

\* C13: on a PropertyLoadSaver or struct destination, loadEntity returns,
\* with the consumer's error or without one, only after protoToProperties
\* has sent its last Property and closed the channel.
C13_ReturnsAfterProducer ==
    (dstKind \in {"pls", "struct"} /\ lpc = "returned") => (ppc = "done" /\ cclosed)

\* loadMap is over: it has returned, or it has panicked
MapLoadOver == dstKind = "map" /\ lpc \in {"returned", "panic"}

\* the properties of src in the order loadMap goes through them
InOrder == src.Property \o src.RawProperty

\* the Map expected after the properties ps: a Multiple property is
\* appended to the slice under its name (a new slice when there is none), a
\* single one replaces what is there; a property that cannot be converted
\* changes nothing
RECURSIVE ExpectedMap(_, _)
ExpectedMap(mm, ps) ==
    IF ps = <<>> THEN mm
    ELSE LET p == Head(ps)
             r == protoValue(p)
             x == mm[p.Name]
             after ==
                 IF r.err # Nil THEN mm
                 ELSE IF ~p.Multiple
                 THEN [mm EXCEPT ![p.Name] = MVal(r.value.t, r.value.v)]
                 ELSE IF x.slice
                 THEN [mm EXCEPT ![p.Name] = MSlice(x.t, Append(x.s, r.value.v))]
                 ELSE [mm EXCEPT ![p.Name] = MSlice(r.value.t, <<r.value.v>>)]
         IN  ExpectedMap(after, Tail(ps))

\* C14: loadMap applies the properties in order, indexed then raw: a
\* Multiple property is appended to the slice under its name, a one-element
\* slice of its type being made when the name is absent; a single
\* property replaces what is under its name, so the last one wins.
C14_MapMultiplicity ==
    MapLoadOver => (lpc = "returned" /\ m = ExpectedMap(m0, InOrder))

\* a key reference that does not resolve
BadReference(p) == p.Variant = "Reference" /\ p.Val >= 0

\* C15: whenever loadMap returns, a property whose conversion failed has
\* not stopped it: every other property, of the indexed and then of the raw
\* list, has been applied to the Map, and the error returned is non-nil
\* exactly when at least one conversion failed.
C15_MapBestEffort ==
    (dstKind = "map" /\ lpc = "returned") =>
        /\ m = ExpectedMap(m0, InOrder)
        /\ lerr # Nil <=> \E i \in 1..Len(InOrder) : BadReference(InOrder[i])

\* the first property does not convert, a later one has been applied, and
\* the error is returned
C15_Witness ==
    /\ dstKind = "map" /\ lpc = "returned"
    /\ Len(InOrder) >= 2 /\ BadReference(InOrder[1])
    /\ ~BadReference(InOrder[Len(InOrder)]) /\ InOrder[Len(InOrder)].Variant # "None"
    /\ m # m0 /\ lerr = ErrInvalidKey

----------------------------------------------------------------------------
(* Further properties of the encode direction *)

IsBlob(x) == x.Meaning = "BLOB"
IsBytesProp(p) == p.Value.t = "bytes"

\* C16: in an entity saveEntity returns, from any source, the properties
\* encoded from []byte values are all in the raw list and none of them is
\* in the indexed list; a struct's []byte field is sent with NoIndex set
\* though the field has no noindex directive; a streamed []byte Property
\* without NoIndex makes saveEntity fail.
C16_BytesAreRaw ==
    /\ (wpc = "returned" /\ serr = Nil) =>
          /\ CountIf(sx.Property, IsBlob) = 0
          /\ CountIf(sx.RawProperty, IsBlob) = CountIf(Yielded, IsBytesProp)
    /\ srcKind = "struct" =>
          \A i \in 1..Len(sent) : IsBytesProp(sent[i]) => sent[i].NoIndex
    /\ (wpc = "returned" /\ srcKind = "pls"
          /\ \E i \in 1..Len(sent) : IsBytesProp(sent[i]) /\ ~sent[i].NoIndex) =>
          (serr # Nil /\ sx = NilEntity)

\* an entity returned with a []byte value in its raw list and another value
\* in its indexed list
C16_Witness ==
    /\ wpc = "returned" /\ serr = Nil
    /\ CountIf(Yielded, IsBytesProp) > 0
    /\ CountIf(sx.RawProperty, IsBlob) > 0
    /\ Len(sx.Property) > 0

\* the first saved field of typ whose type is not supported (0: none)
FirstUnsupported(typ) ==
    LET bad == {i \in 1..Len(typ) : IsSaved(typ[i]) /\ typ[i].typ = "uint"}
    IN  IF bad = {} THEN 0 ELSE CHOOSE i \in bad : \A j \in bad : i <= j

\* C17: saveEntity on a struct with a saved field of unsupported type
\* returns "unsupported struct field type" and no entity, whatever the
\* values and wherever the field is declared; the fields declared before it
\* are sent, those declared after it are not.
C17_UnsupportedFieldIsFatal ==
    (srcKind = "struct" /\ FirstUnsupported(styp) > 0 /\ wpc = "returned") =>
        /\ serr = ErrUnsupportedField("uint") /\ sx = NilEntity
        /\ sent = SelectSeq(StructProps(SubSeq(styp, 1, FirstUnsupported(styp) - 1), ssv, 1),
                            NotNilKeyProp)

\* C18: an entity saveEntity returns with a nil error has at most
\* maxIndexedProperties indexed properties, and one property for every
\* value of the source that is not skipped (a nil *Key, a field that is
\* not saved): nothing is dropped to fit the limit, and the raw properties
\* do not count.
C18_WithinLimitAndComplete ==
    (wpc = "returned" /\ serr = Nil) =>
        /\ Len(sx.Property) <= maxIndexedProperties
        /\ sx.Property = ExpectedIndexed(Yielded)
        /\ sx.RawProperty = ExpectedRaw(Yielded)

\* an entity returned with as many indexed properties as the limit allows,
\* and raw ones besides
C18_Witness ==
    /\ wpc = "returned" /\ serr = Nil
    /\ Len(sx.Property) = maxIndexedProperties
    /\ Len(sx.RawProperty) > 0

\* C19: in every entity saveEntity returns, from a Map as from a struct
\* or a PropertyLoadSaver, Key is the encoding of the key given, and
\* EntityGroup is the empty path when the key has no parent and the path of
\* the first ancestor of the key, its root, otherwise.
C19_EntityGroupIsRoot ==
    (wpc = "returned" /\ serr = Nil) =>
        /\ sx.Key.App = "app" /\ sx.Key.Path = key
        /\ sx.EntityGroup = (IF Len(key) = 1 THEN <<>> ELSE <<key[1]>>)

\* an entity returned for a key whose parent is not its root
C19_Witness ==
    /\ wpc = "returned" /\ serr = Nil
    /\ Len(key) = 3 /\ sx.EntityGroup = <<key[1]>> /\ sx.Key.Path = key

----------------------------------------------------------------------------
(* decode followed by encode: loadEntity of an entity E that is the        *)
(* encoding of a struct, into a zero struct, then saveEntity of that       *)
(* struct with the same key                                                *)

\* the entity that is the encoding of the struct R of type typ
EncodingOf(typ, R) ==
    [Property |-> ExpectedIndexed(StructProps(typ, R, 1)),
     RawProperty |-> ExpectedRaw(StructProps(typ, R, 1))]

\* the structs whose fields can all be encoded
Encodable(typ) ==
    {R \in StructValues(typ, 1) :
        \A i \in 1..Len(typ) : (IsSaved(typ[i]) /\ typ[i].typ = "uint") => R[i] = <<>>}

\* E has no more indexed properties than saveEntity lets through
WithinLimit(E) == Len(E.Property) <= maxIndexedProperties

ReencodeInit ==
    /\ c = <<>> /\ cclosed = FALSE
    /\ LoadReady /\ NoMap
    /\ dstKind = "struct"
    /\ quota = 0 /\ plsErr = Nil
    /\ styp \in {TypeA, TypeB, TypeC, TypeW}
    /\ src \in {EncodingOf(styp, R) : R \in Encodable(styp)}
    /\ sv0 = ZeroStruct(styp) /\ sv = sv0
    /\ SaveReady
    /\ srcKind = "none" /\ key \in Keys
    /\ ssv = <<>> /\ smap = <<>> /\ mnv = <<>>
    /\ stream = <<>> /\ saveErr = Nil /\ closes = TRUE

\* saveEntity is called on the struct loadEntity has filled
Reencode_save ==
    /\ dstKind = "struct" /\ lpc = "returned"
    /\ srcKind = "none"
    /\ srcKind' = "struct" /\ ssv' = sv
    /\ UNCHANGED <<chanVars, loadVars, key, smap, mnv, stream, saveErr, closes,
                   saveCall, saveProd, saveCons>>

ReencodeNext == LoadStructNext \/ Reencode_save \/ SaveChanNext

ReencodeSpec == ReencodeInit /\ [][ReencodeNext]_vars

ReencodeDone == srcKind = "struct" /\ dstKind = "struct" /\ wpc = "returned"

\* C20: for an entity E that is the encoding of a struct (so within the
\* limit on indexed properties), loadEntity of E into a zero struct of that
\* type followed by saveEntity of the struct with the same key returns no
\* error and an entity whose indexed and raw lists are E's: same names,
\* values, Multiple flags and order.
C20_ReencodeIsIdentity ==
    (ReencodeDone /\ WithinLimit(src)) =>
        /\ lerr = Nil /\ serr = Nil
        /\ sx.Property = src.Property
        /\ sx.RawProperty = src.RawProperty

\* an entity with a scalar, two values of one name and a raw []byte
\* property has been decoded and encoded again
C20_Witness ==
    /\ ReencodeDone /\ serr = Nil
    /\ Len(src.Property) = 2 /\ src.Property[1].Multiple /\ src.Property[2].Multiple
    /\ src.Property[1] # src.Property[2]
    /\ Len(src.RawProperty) = 1 /\ src.RawProperty[1].Meaning = "BLOB"
    /\ sx.Property = src.Property /\ sx.RawProperty = src.RawProperty

----------------------------------------------------------------------------
(* Further properties of the struct destination *)

\* the integer types narrower than int64, and the values of each
Narrow == {"int8", "int16", "int32"}
FitsIn(typ, x) ==
    CASE typ = "int8" -> 0 - 128 <= x /\ x <= 127
      [] typ = "int16" -> 0 - 32768 <= x /\ x <= 32767
      [] OTHER -> 0 - 2147483647 - 1 <= x /\ x <= 2147483647
\* every integer a narrow field (or slice of narrow elements) holds fits
HoldsFitting(f, val) ==
    IF f.slice THEN \A j \in 1..Len(val) : FitsIn(f.typ, val[j].v)
    ELSE FitsIn(f.typ, val.v)
Overflows == "value overflows struct field"

\* p is an int64 property whose name resolves to the settable field i of
\* narrow integer type, not refused for being multiple-valued
AimsAtNarrow(p, i) ==
    /\ i = byName(styp, p.Name) /\ i # 0
    /\ styp[i].canSet /\ styp[i].typ \in Narrow
    /\ p.Value.t = "int64"
    /\ p.Multiple => styp[i].slice

\* C21: an int64 property decoded into a field of type int8, int16 or
\* int32 (or appended to a slice of these) is stored exactly when its value
\* is within the range of the type; otherwise the struct is left as it was
\* (nothing truncated or wrapped is stored), the property is recorded as a
\* mismatch with the overflow reason, and structPLS.Load stays in its loop
\* for the remaining properties.
C21_NarrowIntegers ==
    [][\A p \in NextInC : \A i \in 1..Len(styp) :
          (LoadsProperty(p) /\ AimsAtNarrow(p, i)) =>
              /\ HoldsFitting(styp[i], sv'[i])
              /\ cpc' = "recv"
              /\ IF FitsIn(styp[i].typ, p.Value.v)
                 THEN /\ sv'[i] = IF styp[i].slice
                                  THEN Append(sv[i], Val(styp[i].typ, p.Value.v))
                                  ELSE Val(styp[i].typ, p.Value.v)
                      /\ reason' = reason /\ fieldName' = fieldName
                 ELSE /\ sv' = sv
                      /\ reason' # NoReason /\ reason'[1] = Overflows
                      /\ fieldName' = p.Name]_vars

\* an int8 overflow was reported, and the int16 and []int8 properties that
\* followed it were stored
C21_Witness ==
    /\ dstKind = "struct" /\ styp = TypeN /\ lpc = "returned"
    /\ Len(received) = 3
    /\ received[1].Name = "N8" /\ ~FitsIn("int8", received[1].Value.v)
    /\ received[2].Name = "N16" /\ sv[2] = Val("int16", 0 - 32768)
    /\ received[3].Name = "Ns" /\ sv[4] = Append(sv0[4], Val("int8", 5))
    /\ sv[1] = sv0[1]
    /\ lerr = ErrFieldMismatch("N8", <<Overflows, "-129", "int8">>)

----------------------------------------------------------------------------
(* The bridge of both directions *)

\* one call of loadEntity or of saveEntity, on a destination or source of
\* each kind: every PropertyLoadSaver destination, zero structs of type
\* TypeB and empty Maps with entities of at most MaxProps properties,
\* the PropertyLoadSaver sources over FatalAlphabet and the long ones,
\* every struct and Map source
BridgeInit ==
    \/ LoadBridgeInit
    \/ /\ LoadStructInit
       /\ styp = TypeB /\ sv0 = ZeroStruct(styp) /\ Len(AllProps(src)) <= MaxProps
    \/ /\ LoadMapInit
       /\ m0 = EmptyMap /\ Len(AllProps(src)) <= MaxProps
    \/ SaveFatalInit
    \/ SaveStructInit
    \/ SaveMapInit
BridgeNext == LoadNext \/ SaveNext
BridgeSpec == BridgeInit /\ [][BridgeNext]_vars

Streaming == {"pls", "struct"}
\* the steps a task blocked in its send, in its receive can take
LoadConsumerStep ==
    pls_Load_recv \/ pls_Load_return \/ structPLS_Load_recv \/ structPLS_Load_return
SaveConsumerStep ==
    \/ propertiesToProto_recv \/ propertiesToProto_end
    \/ propertiesToProto_drain \/ propertiesToProto_done
\* a PropertyLoadSaver's Load that has not yet taken all it wants, or
\* structPLS.Load, is at its receive from c
LoadReceiving == cpc = "recv" /\ (dstKind = "struct" \/ Len(received) < quota)

BridgeBounded ==
    /\ Len(c) <= 32
    \* no task and no channel traffic for a Map
    /\ dstKind = "map" => (ppc = "idle" /\ cpc = "idle" /\ c = <<>>)
    /\ srcKind = "map" => (kpc = "idle" /\ gpc = "idle" /\ c = <<>>)
    \* the task of a streaming call exists once the call is under way
    /\ (dstKind \in Streaming /\ lpc # "start") => ppc # "idle"
    /\ (srcKind \in Streaming /\ wpc # "start") => kpc # "idle"
    \* a send is held up exactly while c is full
    /\ ppc = "send" => ((ENABLED protoToProperties_send) <=> Len(c) < 32)
    /\ (gpc = "run" /\ toSend # <<>>) => ((ENABLED Save_send) <=> Len(c) < 32)
    \* a receive is held up exactly while c is empty (and not closed)
    /\ LoadReceiving => ((ENABLED LoadConsumerStep) <=> (c # <<>> \/ cclosed))
    /\ kpc \in {"range", "drain"} => ((ENABLED SaveConsumerStep) <=> (c # <<>> \/ cclosed))

\* the goroutine is started by the call, once, together with the channel
OneTaskPerCall ==
    /\ ((ppc = "idle") # (ppc' = "idle")) =>
            (lpc = "start" /\ lpc' = "load" /\ dstKind \in Streaming
                /\ ppc' = "loop" /\ c' = <<>> /\ ~cclosed')
    /\ ((kpc = "idle") # (kpc' = "idle")) =>
            (wpc = "start" /\ wpc' = "save" /\ srcKind \in Streaming
                /\ kpc' = "range" /\ c' = <<>> /\ ~cclosed')
    /\ lpc # "start" => lpc' # "start"
    /\ wpc # "start" => wpc' # "start"

\* C22: a loadEntity or saveEntity call on a PropertyLoadSaver or struct
\* makes one channel and starts one goroutine, once; the channel never
\* holds more than 32 Properties; a task at its send on the channel can go
\* on exactly when fewer than 32 are queued, a task at its receive exactly
\* when one is queued or the channel is closed; a call on a Map starts no
\* goroutine and queues nothing.
C22_BoundedBridge == []BridgeBounded /\ [][OneTaskPerCall]_vars

\* the producer of a load is held at its send by a full channel, and the
\* consumer of a save at its receive by an empty one
C22_Witness ==
    \/ /\ dstKind = "pls" /\ Len(c) = 32 /\ ppc = "send" /\ cpc = "recv"
       /\ ~ENABLED protoToProperties_send
    \/ /\ srcKind = "pls" /\ Len(c) = 32 /\ gpc = "run" /\ toSend # <<>>
       /\ ~ENABLED Save_send

----------------------------------------------------------------------------
(* Further properties of the struct source *)

\* structPLS.Save has returned nil
StructSaveOver == srcKind = "struct" /\ gpc = "returned" /\ err1 = Nil

\* the field a property name belongs to (its position in the declaration)
FieldOf(name) == CHOOSE i \in 1..Len(styp) : styp[i].name = name
NamesFields(s) == \A j \in 1..Len(s) : \E i \in 1..Len(styp) : styp[i].name = s[j].Name
FieldOrder(s) ==
    /\ NamesFields(s)
    /\ \A a, b \in 1..Len(s) : a < b => FieldOf(s[a].Name) <= FieldOf(s[b].Name)
SentFor(i) == {j \in 1..Len(sent) : sent[j].Name = styp[i].name}
IsNilKeyField(i) == ssv[i].t = "*Key" /\ ssv[i].v = 0

\* what C23 says of the fields that are not saved, and of the order
SaveInFieldOrder ==
    /\ FieldOrder(sent)
    /\ \A i \in 1..Len(styp) : ~IsSaved(styp[i]) => SentFor(i) = {}
    /\ (wpc = "returned" /\ serr = Nil) =>
            (FieldOrder(sx.Property) /\ FieldOrder(sx.RawProperty))

\* C23 as stated: structPLS.Save sends in declared field order, nothing
\* for a field tagged "-" or not settable, and exactly one property, with
\* Multiple=false, for each scalar field and each []byte field; the two
\* lists of the entity are in declared field order.
C23_OnePerScalar ==
    StructSaveOver =>
        /\ SaveInFieldOrder
        /\ \A i \in 1..Len(styp) :
              (IsSaved(styp[i]) /\ ~styp[i].slice) =>
                  /\ Cardinality(SentFor(i)) = 1
                  /\ \A j \in SentFor(i) : ~sent[j].Multiple

\* C23: when structPLS.Save returns nil it has sent, in declared field
\* order, nothing for a field tagged "-" or not settable, nothing for a
\* scalar field holding a nil *Key, and exactly one property, with
\* Multiple=false, for every other scalar field and each []byte field; the
\* two lists of the entity are in declared field order.
C23_OnePerNonNilScalar ==
    StructSaveOver =>
        /\ SaveInFieldOrder
        /\ \A i \in 1..Len(styp) :
              (IsSaved(styp[i]) /\ ~styp[i].slice) =>
                  /\ Cardinality(SentFor(i)) = IF IsNilKeyField(i) THEN 0 ELSE 1
                  /\ \A j \in SentFor(i) : ~sent[j].Multiple

\* a struct of six fields, two of them not saved, has been encoded: four
\* properties sent, two in each list of the entity, in field order
C23_Witness ==
    /\ StructSaveOver /\ styp = TypeC
    /\ wpc = "returned" /\ serr = Nil
    /\ [j \in 1..Len(sent) |-> sent[j].Name] = <<"T", "F", "BK", "Bo">>
    /\ [j \in 1..2 |-> sx.Property[j].Name] = <<"T", "Bo">>
    /\ [j \in 1..2 |-> sx.RawProperty[j].Name] = <<"F", "BK">>
    /\ Len(sx.Property) = 2 /\ Len(sx.RawProperty) = 2

----------------------------------------------------------------------------
(* loadEntity called twice with the same entity and the same struct *)

LoadTwiceInit ==
    /\ LoadStructInit
    /\ styp \in {TypeA, TypeB, TypeN}
    /\ sv0 = ZeroStruct(styp)

\* the caller calls loadEntity(dst, src) again once the first call, which
\* has stored something, is over
LoadTwice_again ==
    /\ dstKind = "struct" /\ lpc = "returned" /\ ppc = "done"
    /\ sv0 = ZeroStruct(styp) /\ sv # sv0
    /\ sv0' = sv
    /\ c' = <<>> /\ cclosed' = FALSE /\ errc' = <<>>
    /\ props' = <<>> /\ rawProps' = <<>> /\ ppc' = "idle" /\ pend' = Nil
    /\ cpc' = "idle" /\ cret' = Nil /\ received' = <<>>
    /\ lpc' = "start" /\ lerr' = Nil
    /\ fieldName' = "" /\ reason' = NoReason
    /\ UNCHANGED <<saveVars, src, dstKind, quota, plsErr, styp, m0, dstVars>>

LoadTwiceNext == LoadStructNext \/ LoadTwice_again
LoadTwiceSpec == LoadTwiceInit /\ [][LoadTwiceNext]_vars

\* the second call is over
SecondLoadOver == dstKind = "struct" /\ lpc = "returned" /\ sv0 # ZeroStruct(styp)

\* the values of the properties among rs that loadProperty stores in the
\* slice field i, in the order of rs
Accepted(i, rs) ==
    LET Hit(p) == byName(styp, p.Name) = i /\ ReasonOf(p) = NoReason
        hits == SelectSeq(rs, Hit)
    IN  [j \in 1..Len(hits) |-> Val(styp[i].typ, hits[j].Value.v)]
SliceFields == {i \in 1..Len(styp) : styp[i].slice /\ styp[i].canSet /\ styp[i].name # "-"}

\* C24: at every moment of structPLS.Load a slice field holds the k
\* elements it held when the call began followed by the values of the N
\* matching properties received so far, in channel order (k+N elements;
\* exactly the N values for a field that was empty); so the field only
\* ever grows, and after a second loadEntity of the same entity into the
\* same struct every slice field holds its elements twice.
C24_SliceAccumulates ==
    (dstKind = "struct" /\ lpc # "start") =>
        \A i \in SliceFields :
            /\ sv[i] = sv0[i] \o Accepted(i, received)
            /\ Len(sv[i]) = Len(sv0[i]) + Len(Accepted(i, received))
            /\ SecondLoadOver => sv[i] = sv0[i] \o sv0[i]

\* a slice field that held two different elements after the first call
\* holds them twice after the second
C24_Witness ==
    /\ SecondLoadOver
    /\ \E i \in SliceFields :
          /\ Len(sv0[i]) = 2 /\ sv0[i][1] # sv0[i][2]
          /\ sv[i] = sv0[i] \o sv0[i]
          /\ \A j \in 1..Len(received) : received[j].Multiple

----------------------------------------------------------------------------
(* Termination of loadEntity *)

\* C25: every call of loadEntity on a PropertyLoadSaver whose Load returns
\* after taking finitely many properties (with an error or nil, having
\* read the channel to its close or not) eventually returns.
C25_LoadEntityReturns == (lpc = "start") ~> (lpc = "returned")

----------------------------------------------------------------------------
(* Repeated names in propertiesToProto *)

\* the Properties propertiesToProto has taken from the channel
Taken == SubSeq(sent, 1, Len(sent) - Len(c))
\* propertiesToProto has returned an entity
ProtoReturned == kpc \in {"drain", "done"} /\ kres.err = Nil
\* Properties of one name are all Multiple
RepeatsAreMultiple(s) ==
    \A i, j \in 1..Len(s) :
        (i # j /\ s[i].Name = s[j].Name) => (s[i].Multiple /\ s[j].Multiple)
TwoSingles(s) ==
    \E i, j \in 1..Len(s) :
        i < j /\ s[i].Name = s[j].Name /\ ~s[i].Multiple /\ ~s[j].Multiple

\* C26: as long as propertiesToProto has refused nothing, the Properties
\* it has taken that share a name are all Multiple (the first of the name
\* and every later one); in an entity it returns, properties that share a
\* name all have Multiple=true; once it has taken two Properties of one
\* name that both have Multiple=false it returns an error and no entity.
C26_RepeatedNamesAreMultiple ==
    srcKind = "pls" =>
        /\ kpc = "range" => RepeatsAreMultiple(Taken)
        /\ ProtoReturned =>
            /\ RepeatsAreMultiple(sent)
            /\ RepeatsAreMultiple(kres.x.Property \o kres.x.RawProperty)
        /\ (kpc # "idle" /\ TwoSingles(Taken)) =>
            (kpc \in {"drain", "done"} /\ kres.err # Nil /\ kres.x = NilEntity)

\* two Properties of one name, both with Multiple=false and both of a
\* supported type, were refused
C26_Witness ==
    /\ srcKind = "pls" /\ kpc = "done"
    /\ Len(sent) >= 2 /\ sent[1].Name = sent[2].Name
    /\ ~sent[1].Multiple /\ ~sent[2].Multiple
    /\ sent[1].Value.t = "int64" /\ sent[2].Value.t = "int64"
    /\ kres.err = ErrMultiple(sent[1].Name) /\ kres.x = NilEntity

----------------------------------------------------------------------------
(* A property protoToProperties cannot convert *)

\* x has no populated value, or a key reference that does not resolve
Unreadable(x) == x.Variant = "None" \/ BadReference(x)
HasUnreadable(e) == \E i \in 1..Len(AllProps(e)) : Unreadable(AllProps(e)[i])
\* how many properties of indexed ++ raw precede the first such property
Readable(e) ==
    (CHOOSE i \in 1..Len(AllProps(e)) :
        /\ Unreadable(AllProps(e)[i])
        /\ \A j \in 1..(i - 1) : ~Unreadable(AllProps(e)[j])) - 1
ReadablePart(e) == SubSeq(Expected(e), 1, Readable(e))
ProducerError(e) ==
    IF AllProps(e)[Readable(e) + 1].Variant = "None" THEN ErrNoValue ELSE ErrInvalidKey

\* C27: when the entity holds a property with no value or an unresolvable
\* key reference, the first of them after i others, the channel carries a
\* prefix of those i Properties and nothing else; once it is closed it has
\* carried exactly the i, and a consumer that reads to the close has
\* received exactly them, in order; when loadEntity returns, its error is
\* the consumer's if that is non-nil and the producer's otherwise, never
\* nil.
C27_ProducerFailure ==
    (dstKind = "pls" /\ lpc # "start" /\ HasUnreadable(src)) =>
        /\ IsPrefix(received \o c, ReadablePart(src))
        /\ cclosed => received \o c = ReadablePart(src)
        /\ SawClose => received = ReadablePart(src)
        /\ lpc = "returned" =>
            /\ lerr # Nil
            /\ lerr = IF cret # Nil THEN cret ELSE ProducerError(src)

\* a consumer that read to the close received the properties that
\* precede the unreadable one, not those that follow it, and loadEntity
\* returned the producer's error
C27_Witness ==
    /\ dstKind = "pls" /\ lpc = "returned" /\ SawClose
    /\ HasUnreadable(src) /\ Readable(src) = ChanCap
    /\ Len(AllProps(src)) > Readable(src) + 1
    /\ received = ReadablePart(src) /\ Len(received) = ChanCap
    /\ cret = Nil /\ lerr = ProducerError(src)

----------------------------------------------------------------------------
(* The frame of loadProperty *)

\* the reason loadProperty returns for p with the struct as it is
ReasonNow(p) == loadProperty(styp, sv, p, p.Multiple).reason

\* C28: a call of loadProperty that returns a reason (no such field, field
\* not settable, multiple-valued property for a field that is no slice,
\* type mismatch, overflow) leaves every field of the struct as it was,
\* slices included; a call that returns no reason changes no field but
\* the one the property names.
C28_FailedLoadChangesNothing ==
    [][\A p \in NextInC :
          LoadsProperty(p) =>
              IF ReasonNow(p) # NoReason
              THEN sv' = sv /\ reason' = ReasonNow(p)
              ELSE /\ byName(styp, p.Name) # 0
                   /\ \A i \in 1..Len(styp) : i # byName(styp, p.Name) => sv'[i] = sv[i]
                   /\ reason' = reason]_vars

\* three properties were refused, for three different reasons, and the
\* struct, none of whose fields is zero or empty, is as it was
C28_Witness ==
    /\ dstKind = "struct" /\ cpc = "returned"
    /\ sv0 = FullStruct(styp) /\ sv = sv0
    /\ Len(received) = 3
    /\ \A j \in 1..3 : ReasonOf(received[j]) # NoReason
    /\ Cardinality({ReasonOf(received[j])[1] : j \in 1..3}) = 3

----------------------------------------------------------------------------
(* loadMap runs to completion *)

\* C29: for every sequence of well-formed properties (whatever their
\* names, Multiple flags and value variants) and every destination Map,
\* loadMap returns, with or without an error: it does not panic.
C29_MapDecodeNeverPanics == (dstKind = "map" /\ WellFormed(src)) => lpc # "panic"

----------------------------------------------------------------------------
(* The end of saveEntity *)

\* C30: when saveEntity on a PropertyLoadSaver has returned, Save has
\* returned and the propertiesToProto goroutine is over, its drain loop
\* included (the channel is closed and empty, donec is closed); the result
\* is Save's error and no entity when Save failed, also when
\* propertiesToProto failed too, and otherwise the entity and error
\* propertiesToProto ended with.
C30_NoTaskOutlivesSave ==
    (srcKind = "pls" /\ wpc = "returned") =>
        /\ gpc = "returned" /\ kpc = "done" /\ donec
        /\ c = <<>> /\ cclosed
        /\ IF err1 # Nil THEN serr = err1 /\ sx = NilEntity
           ELSE serr = kres.err /\ sx = kres.x

\* Save and propertiesToProto both failed, propertiesToProto first, with
\* Properties left to drain; saveEntity returned Save's error
C30_Witness ==
    /\ srcKind = "pls" /\ wpc = "returned"
    /\ err1 = ErrUser /\ kres.err # Nil /\ kres.err # err1
    /\ serr = ErrUser /\ sx = NilEntity
    /\ Len(sent) > ChanCap
    /\ propertyToProto(newEntity(key), <<>>, sent[1]).err # Nil

============================================================================
